---- MODULE Spec2Model ----
(***************************************************************************)
(* The LLL evaluator (src/src/interpreter.ts) and module loader            *)
(* (module-loader.ts, src/unnamed/part_002) as an abstract machine.        *)
(*                                                                         *)
(* The host call stack of the recursive evaluator is made explicit as      *)
(* `stack`: one frame per active executeBlock, loop, try, user call and    *)
(* interpret activation.  `res` holds what the construct that just ended   *)
(* handed to its caller: nothing yet, a normal completion, a control-flow  *)
(* signal, or a thrown error.  Strings are sequences of symbols, so that   *)
(* concatenation and "contains" are computable.                           *)
(*                                                                         *)
(* Expressions are evaluated in one piece by evaluateExpression; a call of *)
(* a user function is handed to the machine, so the programs that are      *)
(* enumerated call user functions only as the whole value of a statement.  *)
(***************************************************************************)
EXTENDS Integers, Sequences, FiniteSets, TLC

VARIABLES files, heap, arrays, output, stack, res, cache, loading, runResult, evalCount,
          parser, repl

vars == <<files, heap, arrays, output, stack, res, cache, loading, runResult, evalCount,
          parser, repl>>

\* ── Bounds ──────────────────────────────────────────────────────────────
\* The step budget, scaled down from 10_000_000 (interpreter.ts:97).
STEP_LIMIT == 60

\* Longest main program that is enumerated, in top-level statements.
MaxStmts == 2

\* ── Program tree (types.ts) ─────────────────────────────────────────────
NoExpr == [type |-> "None"]

\* A number is value + half/2 with half in {0, 1}: the integers and the
\* numbers half way between two integers.
NumberLiteral(n) == [type |-> "NumberLiteral", value |-> n, half |-> 0]

\* The literal n.5
HalfLiteral(n) == [type |-> "NumberLiteral", value |-> n, half |-> 1]

StringLiteral(s) == [type |-> "StringLiteral", value |-> s]

BooleanLiteral(b) == [type |-> "BooleanLiteral", value |-> b]

NilLiteral == [type |-> "NilLiteral"]

Identifier(name) == [type |-> "Identifier", name |-> name]

ArrayLiteral(elements) == [type |-> "ArrayLiteral", elements |-> elements]

UnaryExpression(op, operand) == [type |-> "UnaryExpression", operator |-> op, operand |-> operand]

BinaryExpression(op, left, right) ==
  [type |-> "BinaryExpression", operator |-> op, left |-> left, right |-> right]

CallExpression(callee, args) ==
  [type |-> "CallExpression", callee |-> callee, arguments |-> args, line |-> 1, column |-> 1]

IndexExpression(object, index) == [type |-> "IndexExpression", object |-> object, index |-> index]

LetDeclaration(name, value) ==
  [type |-> "LetDeclaration", name |-> name, value |-> value, line |-> 1, column |-> 1]

ConstDeclaration(name, value) ==
  [type |-> "ConstDeclaration", name |-> name, value |-> value, line |-> 1, column |-> 1]

Assignment(name, value) ==
  [type |-> "Assignment", name |-> name, value |-> value, line |-> 1, column |-> 1]

IndexAssignment(name, index, value) ==
  [type |-> "IndexAssignment", name |-> name, index |-> index, value |-> value,
   line |-> 1, column |-> 1]

ExpressionStatement(expression) ==
  [type |-> "ExpressionStatement", expression |-> expression, line |-> 1, column |-> 1]

FunctionDeclaration(name, params, body) ==
  [type |-> "FunctionDeclaration", name |-> name, params |-> params, body |-> body,
   line |-> 1, column |-> 1]

ReturnStatement(value) == [type |-> "ReturnStatement", value |-> value, line |-> 1, column |-> 1]

BreakStatement == [type |-> "BreakStatement", line |-> 1, column |-> 1]

ContinueStatement == [type |-> "ContinueStatement", line |-> 1, column |-> 1]

IfStatement(condition, consequent, alternateConditions, alternate) ==
  [type |-> "IfStatement", condition |-> condition, consequent |-> consequent,
   alternateConditions |-> alternateConditions, alternate |-> alternate,
   line |-> 1, column |-> 1]

WhileStatement(condition, body) ==
  [type |-> "WhileStatement", condition |-> condition, body |-> body, line |-> 1, column |-> 1]

ForStatement(variable, iterable, body) ==
  [type |-> "ForStatement", variable |-> variable, iterable |-> iterable, body |-> body,
   line |-> 1, column |-> 1]

ImportStatement(path) == [type |-> "ImportStatement", path |-> path, line |-> 1, column |-> 1]

TryCatchStatement(tryBody, catchVariable, catchBody) ==
  [type |-> "TryCatchStatement", tryBody |-> tryBody, catchVariable |-> catchVariable,
   catchBody |-> catchBody, line |-> 1, column |-> 1]

\* IfStatement.alternate is null when there is no else branch.
NoBlock == [present |-> FALSE, body |-> <<>>]

ElseBlock(body) == [present |-> TRUE, body |-> body]

\* ── Runtime values (interpreter.ts LuxValue) ────────────────────────────
NilV == [t |-> "nil"]

BoolV(b) == [t |-> "boolean", v |-> b]

\* v is Math.floor of the number, h says whether one half is added to it.
NumV(n) == [t |-> "number", v |-> n, h |-> 0]

Twice(value) == 2 * value.v + value.h

FromTwice(k) == [t |-> "number", v |-> k \div 2, h |-> k % 2]

\* Math.floor(index)
floor(value) == value.v

StrV(s) == [t |-> "string", v |-> s]

ArrV(ref) == [t |-> "array", ref |-> ref]

\* Every function captures the first frame, the global environment.
LuxFunctionGlobal(declaration, closure) ==
  [t |-> "function", declaration |-> declaration, closure |-> 1]

LuxFunction(declaration, closure) ==
  [t |-> "function", declaration |-> declaration, closure |-> closure]

BuiltinFunction(name) == [t |-> "builtin", name |-> name]

\* ── Control-flow signals and completions ────────────────────────────────
NoRes == [kind |-> "none"]

NormalRes == [kind |-> "normal"]

ReturnSignal(value) == [kind |-> "return", value |-> value]

\* break raises the signal of continue.
BreakAsContinue == [kind |-> "continue"]

BreakSignal == [kind |-> "break"]

ContinueSignal == [kind |-> "continue"]

Thrown(e) == [kind |-> "error", error |-> e]

IsSignal(r) == r.kind \in {"return", "break", "continue"}

\* ── Errors (errors.ts) ──────────────────────────────────────────────────
RuntimeError(message, file, line, column, callStack) ==
  [name |-> "RuntimeError", message |-> message, file |-> file, line |-> line,
   column |-> column, callStack |-> callStack]

ParseError(message, file, line, column) ==
  [name |-> "ParseError", message |-> message, file |-> file, line |-> line,
   column |-> column, callStack |-> <<>>]

\* A host Error: it has a message and nothing else.
Error(message) ==
  [name |-> "Error", message |-> message, file |-> <<>>, line |-> 0, column |-> 0,
   callStack |-> <<>>]

RECURSIVE formatFrames(_)
formatFrames(frames) ==
  IF frames = <<>> THEN <<>>
  ELSE <<"\n  at ", Head(frames).name, " (">> \o Head(frames).file
         \o <<":", ToString(Head(frames).line), ":", ToString(Head(frames).column), ")">>
         \o formatFrames(Tail(frames))

\* LuxbinError.format and its RuntimeError override.
format(e) ==
  IF e.name = "RuntimeError"
  THEN <<e.name, ": ">> \o e.message
         \o (IF e.line > 0
             THEN <<"\n  at ">> \o e.file \o <<":", ToString(e.line), ":", ToString(e.column)>>
             ELSE <<>>)
         \o formatFrames(e.callStack)
  ELSE <<e.name, ": ">> \o e.message
         \o (IF e.line > 0
             THEN <<" at ">> \o e.file \o <<":", ToString(e.line), ":", ToString(e.column)>>
             ELSE <<>>)

Contains(s, sym) == \E i \in 1..Len(s) : s[i] = sym

\* ── Environment (interpreter.ts class Environment) ──────────────────────
\* heap[env] = [vars |-> name :> [value, constant], parent |-> env or 0].
\* A new frame that starts with a copy of its parent's bindings.
NewEnvironmentCopy(h, parent) ==
  Append(h, [vars |-> IF parent = 0 THEN <<>> ELSE h[parent].vars, parent |-> parent])

NewEnvironment(h, parent) == Append(h, [vars |-> <<>>, parent |-> parent])

OwnNames(h, env) == DOMAIN h[env].vars

getOwnEntry(h, env, name) == h[env].vars[name]

define(h, env, name, value, constant) ==
  [h EXCEPT ![env].vars =
     [n \in (DOMAIN @) \cup {name} |->
        IF n = name THEN [value |-> value, constant |-> constant] ELSE @[n]]]

\* The frame in which the parent walk of get/set/has finds name; 0 if none.
RECURSIVE Lookup(_, _, _)
Lookup(h, env, name) ==
  IF env = 0 THEN 0
  ELSE IF name \in DOMAIN h[env].vars THEN env
  ELSE Lookup(h, h[env].parent, name)

has(h, env, name) == Lookup(h, env, name) # 0

get(h, env, name) ==
  LET f == Lookup(h, env, name) IN
  IF f # 0 THEN [ok |-> TRUE, value |-> h[f].vars[name].value]
  ELSE [ok |-> FALSE, message |-> <<"Undefined variable", ": '", name, "'">>]

\* set without the test of the constant flag.
setUnchecked(h, env, name, value) ==
  LET f == Lookup(h, env, name) IN
  IF f = 0 THEN [ok |-> FALSE, heap |-> h, message |-> <<"Undefined variable", ": '", name, "'">>]
  ELSE [ok |-> TRUE, heap |-> [h EXCEPT ![f].vars[name].value = value]]

\* set that defines a name it does not find.
setOrDefine(h, env, name, value) ==
  LET f == Lookup(h, env, name) IN
  IF f = 0 THEN [ok |-> TRUE, heap |-> define(h, env, name, value, FALSE)]
  ELSE IF h[f].vars[name].constant
  THEN [ok |-> FALSE, heap |-> h, message |-> <<"Cannot reassign constant", ": '", name, "'">>]
  ELSE [ok |-> TRUE, heap |-> [h EXCEPT ![f].vars[name].value = value]]

set(h, env, name, value) ==
  LET f == Lookup(h, env, name) IN
  IF f = 0 THEN [ok |-> FALSE, heap |-> h, message |-> <<"Undefined variable", ": '", name, "'">>]
  ELSE IF h[f].vars[name].constant
  THEN [ok |-> FALSE, heap |-> h, message |-> <<"Cannot reassign constant", ": '", name, "'">>]
  ELSE [ok |-> TRUE, heap |-> [h EXCEPT ![f].vars[name].value = value]]

\* ── Utility functions (interpreter.ts 436-466) ─────────────────────────
isTruthy(value) ==
  CASE value.t = "nil" -> FALSE
    [] value.t = "boolean" -> value.v
    [] value.t = "number" -> Twice(value) # 0
    [] value.t = "string" -> value.v # <<>>
    [] OTHER -> TRUE

RECURSIVE stringify(_, _)
RECURSIVE stringifyJoin(_, _, _)
stringifyJoin(arrs, elems, i) ==
  IF i > Len(elems) THEN <<>>
  ELSE (IF i > 1 THEN <<", ">> ELSE <<>>) \o stringify(arrs, elems[i])
         \o stringifyJoin(arrs, elems, i + 1)

stringify(arrs, value) ==
  CASE value.t = "nil" -> <<"nil">>
    [] value.t = "boolean" -> IF value.v THEN <<"true">> ELSE <<"false">>
    [] value.t = "number" ->
         IF value.h = 0 THEN <<ToString(value.v)>>
         ELSE IF value.v >= 0 THEN <<ToString(value.v), ".5">>
         ELSE <<"-", ToString(0 - value.v - 1), ".5">>
    [] value.t = "string" -> value.v
    [] value.t = "array" -> <<"[">> \o stringifyJoin(arrs, arrs[value.ref], 1) \o <<"]">>
    [] value.t = "function" -> <<"<function ", value.declaration.name, ">">>
    [] value.t = "builtin" -> <<"<builtin ", value.name, ">">>

typeOf(value) == value.t

\* JavaScript ===: primitives by value, arrays by reference.
StrictEquals(left, right) ==
  IF left.t # right.t THEN FALSE
  ELSE CASE left.t = "nil" -> TRUE
         [] left.t \in {"boolean", "number", "string"} -> left = right
         [] left.t = "array" -> left.ref = right.ref
         [] left.t = "builtin" -> left.name = right.name
         [] left.t = "function" -> left = right

\* ── Evaluation state threaded through one expression ────────────────────
\* st = [heap, arrays, output, steps, file, callStack]
Value(st, v) == [kind |-> "value", st |-> st, value |-> v]

Throw(st, e) == [kind |-> "error", st |-> st, error |-> e]

\* A user function reached in call position: the machine runs its body.
Invoke(st, func, args, expr) ==
  [kind |-> "call", st |-> st, func |-> func, args |-> args, expr |-> expr]

LimitMessage == <<"Execution limit exceeded", " (10,000,000 steps). Possible infinite loop.">>

\* step(): the counter after the increment, and whether it throws.
step(st) == [st EXCEPT !.steps = @ + 1]

\* A limit that only the step crossing it meets.
ExceededOnce(st) == st.steps = STEP_LIMIT + 1

Exceeded(st) == st.steps > STEP_LIMIT

LimitError(st) == RuntimeError(LimitMessage, st.file, 0, 0, st.callStack)

\* ── Built-ins (stdlib) ──────────────────────────────────────────────────
BuiltinNames == {"println", "to_string", "push", "pop", "len"}

RECURSIVE joinArgs(_, _, _)
joinArgs(arrs, args, i) ==
  IF i > Len(args) THEN <<>>
  ELSE (IF i > 1 THEN <<" ">> ELSE <<>>) \o stringify(arrs, args[i]) \o joinArgs(arrs, args, i + 1)

Arg(args, i) == IF i <= Len(args) THEN args[i] ELSE [t |-> "undefined"]

\* push that builds a new array and leaves the old one as it was.
pushCopy(arrs, ref, value) == Append(arrs, Append(arrs[ref], value))

\* args[0].push(args[1]) (stdlib/array.ts 18): the array itself grows.
pushInto(arrs, ref, value) == [arrs EXCEPT ![ref] = Append(@, value)]

\* The result of fn(args): a value, or a host Error with a message.
callBuiltin(name, args, st) ==
  CASE name = "println" ->
         Value([st EXCEPT !.output = Append(@, joinArgs(st.arrays, args, 1))], NilV)
    [] name = "to_string" ->
         Value(st, StrV(IF Len(args) = 0 THEN <<"undefined">> ELSE stringify(st.arrays, args[1])))
    [] name = "push" ->
         IF Arg(args, 1).t # "array"
         THEN Throw(st, Error(<<"push: first argument must be an array">>))
         ELSE Value([st EXCEPT !.arrays = pushInto(@, args[1].ref,
                                                     IF Len(args) >= 2 THEN args[2] ELSE NilV)], args[1])
    [] name = "pop" ->
         IF Arg(args, 1).t # "array" THEN Throw(st, Error(<<"pop: expected array">>))
         ELSE IF Len(st.arrays[args[1].ref]) = 0 THEN Throw(st, Error(<<"pop: array is empty">>))
         ELSE LET a == st.arrays[args[1].ref] IN
              Value([st EXCEPT !.arrays[args[1].ref] = SubSeq(a, 1, Len(a) - 1)], a[Len(a)])
    [] name = "len" ->
         CASE Arg(args, 1).t = "string" -> Value(st, NumV(Len(args[1].v)))
           [] Arg(args, 1).t = "array" -> Value(st, NumV(Len(st.arrays[args[1].ref])))
           [] OTHER -> Throw(st, Error(<<"len: expected string or array">>))

\* ── evaluateBinaryOp (interpreter.ts 374-420) ───────────────────────────
RECURSIVE Pow(_, _)
Pow(b, n) == IF n <= 0 THEN 1 ELSE b * Pow(b, n - 1)

evaluateBinaryOp(op, left, right, st) ==
  IF op = "+" /\ (left.t = "string" \/ right.t = "string")
  THEN Value(st, StrV(stringify(st.arrays, left) \o stringify(st.arrays, right)))
  ELSE IF left.t = "number" /\ right.t = "number"
            /\ op \in {"+", "-", "*", "/", "%", "^", "<", ">", "<=", ">=", "==", "!="}
  THEN CASE op = "+" -> Value(st, FromTwice(Twice(left) + Twice(right)))
         [] op = "-" -> Value(st, FromTwice(Twice(left) - Twice(right)))
         [] op = "*" -> Value(st, FromTwice((Twice(left) * Twice(right)) \div 2))
         [] op = "/" -> IF right.v = 0
                        THEN Throw(st, RuntimeError(<<"Division by zero">>, st.file, 0, 0, st.callStack))
                        ELSE Value(st, FromTwice((2 * Twice(left)) \div Twice(right)))
         [] op = "%" -> IF right.v = 0
                        THEN Throw(st, RuntimeError(<<"Division by zero">>, st.file, 0, 0, st.callStack))
                        ELSE Value(st, FromTwice(Twice(left) % Twice(right)))
         [] op = "^" -> Value(st, NumV(Pow(left.v, right.v)))
         [] op = "<" -> Value(st, BoolV(Twice(left) < Twice(right)))
         [] op = ">" -> Value(st, BoolV(Twice(left) > Twice(right)))
         [] op = "<=" -> Value(st, BoolV(Twice(left) <= Twice(right)))
         [] op = ">=" -> Value(st, BoolV(Twice(left) >= Twice(right)))
         [] op = "==" -> Value(st, BoolV(Twice(left) = Twice(right)))
         [] op = "!=" -> Value(st, BoolV(Twice(left) # Twice(right)))
  ELSE IF op = "==" THEN Value(st, BoolV(StrictEquals(left, right)))
  ELSE IF op = "!=" THEN Value(st, BoolV(~StrictEquals(left, right)))
  ELSE Throw(st, RuntimeError(<<"Cannot apply operator '", op, "' to ", typeOf(left), " and ",
                                typeOf(right)>>, st.file, 0, 0, st.callStack))

\* The left operand never decides.
leftNeverDecides(operator, left) == FALSE

\* `and` returns a falsy left operand, `or` a truthy one (interpreter.ts 306-315).
leftDecides(operator, left) ==
  \/ operator = "and" /\ ~isTruthy(left)
  \/ operator = "or" /\ isTruthy(left)

\* ── evaluateExpression (interpreter.ts 272-372) ─────────────────────────
RECURSIVE evaluateExpression(_, _, _)
RECURSIVE evaluateAll(_, _, _, _, _)

\* exprs.map(e => evaluateExpression(e, env)): left to right, stopping at a throw.
evaluateAll(exprs, i, env, st, acc) ==
  IF i > Len(exprs) THEN Value(st, acc)
  ELSE LET r == evaluateExpression(exprs[i], env, st) IN
       IF r.kind # "value" THEN r
       ELSE evaluateAll(exprs, i + 1, env, r.st, Append(acc, r.value))

evaluateExpression(expr, env, st0) ==
  LET st == step(st0) IN
  IF Exceeded(st) THEN Throw(st, LimitError(st))
  ELSE CASE expr.type = "NumberLiteral" ->
         Value(st, [t |-> "number", v |-> expr.value, h |-> expr.half])
    [] expr.type = "StringLiteral" -> Value(st, StrV(expr.value))
    [] expr.type = "BooleanLiteral" -> Value(st, BoolV(expr.value))
    [] expr.type = "NilLiteral" -> Value(st, NilV)
    [] expr.type = "Identifier" ->
         LET g == get(st.heap, env, expr.name) IN
         IF g.ok THEN Value(st, g.value)
         ELSE Throw(st, RuntimeError(<<"Undefined variable", ": '", expr.name, "'">>,
                                     st.file, 0, 0, st.callStack))
    [] expr.type = "ArrayLiteral" ->
         LET r == evaluateAll(expr.elements, 1, env, st, <<>>) IN
         IF r.kind # "value" THEN r
         ELSE Value([r.st EXCEPT !.arrays = Append(@, r.value)], ArrV(Len(r.st.arrays) + 1))
    [] expr.type = "UnaryExpression" ->
         LET r == evaluateExpression(expr.operand, env, st) IN
         IF r.kind # "value" THEN r
         ELSE CASE expr.operator = "-" ->
                     IF r.value.t # "number"
                     THEN Throw(r.st, RuntimeError(<<"Unary '-' requires a number">>,
                                                   st.file, 0, 0, r.st.callStack))
                     ELSE Value(r.st, FromTwice(0 - Twice(r.value)))
                [] expr.operator = "not" -> Value(r.st, BoolV(~isTruthy(r.value)))
                [] OTHER -> Throw(r.st, RuntimeError(<<"Unknown unary operator: ", expr.operator>>,
                                                     st.file, 0, 0, r.st.callStack))
    [] expr.type = "BinaryExpression" ->
         LET l == evaluateExpression(expr.left, env, st) IN
         IF l.kind # "value" THEN l
         ELSE IF expr.operator \in {"and", "or"}
         THEN (IF leftDecides(expr.operator, l.value) THEN l
               ELSE evaluateExpression(expr.right, env, l.st))
         ELSE LET r == evaluateExpression(expr.right, env, l.st) IN
              IF r.kind # "value" THEN r
              ELSE evaluateBinaryOp(expr.operator, l.value, r.value, r.st)
    [] expr.type = "CallExpression" ->
         LET g == get(st.heap, env, expr.callee) IN
         IF ~g.ok
         THEN Throw(st, RuntimeError(<<"Undefined function: '", expr.callee, "'">>,
                                     st.file, expr.line, expr.column, st.callStack))
         ELSE LET a == evaluateAll(expr.arguments, 1, env, st, <<>>) IN
              IF a.kind # "value" THEN a
              ELSE IF g.value.t = "builtin"
              THEN LET b == callBuiltin(g.value.name, a.value, a.st) IN
                   IF b.kind = "error" /\ b.error.name # "RuntimeError"
                   THEN Throw(b.st, RuntimeError(b.error.message, st.file, expr.line,
                                                 expr.column, b.st.callStack))
                   ELSE b
              ELSE IF g.value.t = "function"
              THEN Invoke(a.st, g.value, a.value, expr)
              ELSE Throw(a.st, RuntimeError(<<"'", expr.callee, "' is not a function">>,
                                            st.file, expr.line, expr.column, a.st.callStack))
    [] expr.type = "IndexExpression" ->
         LET o == evaluateExpression(expr.object, env, st) IN
         IF o.kind # "value" THEN o
         ELSE LET i == evaluateExpression(expr.index, env, o.st) IN
              IF i.kind # "value" THEN i
              ELSE LET isArr == o.value.t = "array"
                       elems == IF isArr THEN i.st.arrays[o.value.ref] ELSE o.value.v
                       idx == floor(i.value)
                   IN
                   IF o.value.t \notin {"array", "string"}
                   THEN Throw(i.st, RuntimeError(<<"Index operator requires an array or string">>,
                                                 st.file, 0, 0, i.st.callStack))
                   ELSE IF i.value.t # "number"
                   THEN Throw(i.st, RuntimeError(
                                  <<IF isArr THEN "Array index must be a number"
                                    ELSE "String index must be a number">>,
                                  st.file, 0, 0, i.st.callStack))
                   ELSE IF idx < 0 \/ idx >= Len(elems)
                   THEN Throw(i.st, RuntimeError(
                                  <<"Index ", ToString(idx), " out of bounds (length ",
                                    ToString(Len(elems)), ")">>,
                                  st.file, 0, 0, i.st.callStack))
                   ELSE Value(i.st, IF isArr THEN elems[idx + 1] ELSE StrV(<<elems[idx + 1]>>))

\* ── The machine ─────────────────────────────────────────────────────────
\* Frames of `stack`, innermost last:
\*   [k |-> "interpret", file, steps, callStack, genv, module]   one interpret() call
\*   [k |-> "block", stmts, pc, env, role]                       one executeBlock() call
\*   [k |-> "while", stmt, env]  [k |-> "for", stmt, env, ref, idx]
\*   [k |-> "try", stmt, env]    [k |-> "call", stmt, env, func]
GlobalEnv == 1

Null == [null |-> TRUE, text |-> <<>>]

ErrorText(s) == [null |-> FALSE, text |-> s]

Top == stack[Len(stack)]

Pop(stk) == SubSeq(stk, 1, Len(stk) - 1)

\* The innermost interpret() activation: it owns steps, file and callStack.
CurI(stk) == CHOOSE i \in 1..Len(stk) :
               /\ stk[i].k = "interpret"
               /\ \A j \in (i + 1)..Len(stk) : stk[j].k # "interpret"

Cur == stack[CurI(stack)]

St == [heap |-> heap, arrays |-> arrays, output |-> output, steps |-> Cur.steps,
       file |-> Cur.file, callStack |-> Cur.callStack]

\* A body that runs in the environment of its statement.
BlockFrameInPlace(stmts, env, role) ==
  [k |-> "block", stmts |-> stmts, pc |-> 1,
   env |-> IF role \in {"if", "while", "for", "try", "catch"} THEN Top.env ELSE env,
   role |-> role]

BlockFrame(stmts, env, role) == [k |-> "block", stmts |-> stmts, pc |-> 1, env |-> env, role |-> role]

\* The statement on top completed: executeBlock goes on to the next one.
Advance(stk) == [stk EXCEPT ![Len(stk)].pc = @ + 1]

\* Write the evaluation state back; stk still holds the current activation.
Update(st, stk, r) ==
  /\ heap' = st.heap
  /\ arrays' = st.arrays
  /\ output' = st.output
  /\ stack' = [stk EXCEPT ![CurI(stk)].steps = st.steps, ![CurI(stk)].callStack = st.callStack]
  /\ res' = r

LoaderUnchanged == UNCHANGED <<parser, repl, files, cache, loading, runResult, evalCount>>

AtStatement(type) ==
  /\ stack # <<>>
  /\ res.kind = "none"
  /\ Top.k = "block"
  /\ Top.pc <= Len(Top.stmts)
  /\ Top.stmts[Top.pc].type = type

Stmt == Top.stmts[Top.pc]

\* What a statement does with the value of its expression (interpreter.ts 145-199).
finish(stmt, env, value, st) ==
  CASE stmt.type = "LetDeclaration" ->
         [st |-> [st EXCEPT !.heap = define(@, env, stmt.name, value, FALSE)], res |-> NoRes]
    [] stmt.type = "ConstDeclaration" ->
         [st |-> [st EXCEPT !.heap = define(@, env, stmt.name, value, TRUE)], res |-> NoRes]
    [] stmt.type = "Assignment" ->
         LET r == set(st.heap, env, stmt.name, value) IN
         IF r.ok THEN [st |-> [st EXCEPT !.heap = r.heap], res |-> NoRes]
         ELSE [st |-> st,
               res |-> Thrown(RuntimeError(r.message, st.file, stmt.line, stmt.column, st.callStack))]
    [] stmt.type = "ExpressionStatement" -> [st |-> st, res |-> NoRes]
    [] stmt.type = "ReturnStatement" -> [st |-> st, res |-> ReturnSignal(value)]

ValueOf(stmt) == IF stmt.type = "ExpressionStatement" THEN stmt.expression ELSE stmt.value

\* Parameters bound only as far as arguments were given.
RECURSIVE bindGiven(_, _, _, _, _)
bindGiven(h, env, params, args, i) ==
  IF i > Len(params) \/ i > Len(args) THEN h
  ELSE bindGiven(define(h, env, params[i], args[i], FALSE), env, params, args, i + 1)

\* funcEnv of a call: a child of the closure with the parameters bound (341-345).
RECURSIVE bindParams(_, _, _, _, _)
bindParams(h, env, params, args, i) ==
  IF i > Len(params) THEN h
  ELSE bindParams(define(h, env, params[i], IF i <= Len(args) THEN args[i] ELSE NilV, FALSE),
                  env, params, args, i + 1)

\* A statement that is one expression: let, const, assignment, expression, return.
ExecValueStatement ==
  LET stmt == Stmt
      env == Top.env
      st1 == step(St)
  IN
  IF Exceeded(st1) THEN Update(st1, stack, Thrown(LimitError(st1)))
  ELSE LET r == IF ValueOf(stmt).type = "None" THEN Value(st1, NilV)
                ELSE evaluateExpression(ValueOf(stmt), env, st1)
       IN
       CASE r.kind = "error" -> Update(r.st, stack, Thrown(r.error))
         [] r.kind = "value" ->
              LET f == finish(stmt, env, r.value, r.st) IN
              Update(f.st, IF f.res.kind = "none" THEN Advance(stack) ELSE stack, f.res)
         [] r.kind = "call" ->
              LET decl == r.func.declaration
                  h1 == NewEnvironment(r.st.heap, r.func.closure)
                  funcEnv == Len(h1)
                  st2 == [r.st EXCEPT
                            !.callStack = Append(@, [name |-> decl.name, file |-> r.st.file,
                                                     line |-> r.expr.line, column |-> r.expr.column]),
                            !.heap = bindParams(h1, funcEnv, decl.params, r.args, 1)]
              IN
              Update(st2,
                     stack \o <<[k |-> "call", stmt |-> stmt, env |-> env, func |-> r.func],
                                BlockFrame(decl.body, funcEnv, "function")>>,
                     NoRes)

LetDeclarationStep == AtStatement("LetDeclaration") /\ ExecValueStatement /\ LoaderUnchanged

ConstDeclarationStep == AtStatement("ConstDeclaration") /\ ExecValueStatement /\ LoaderUnchanged

AssignmentStep == AtStatement("Assignment") /\ ExecValueStatement /\ LoaderUnchanged

\* arr[idx] = value of the host: a position past the end extends the array.
storeAt(elems, idx, value) ==
  IF idx < Len(elems) THEN [elems EXCEPT ![idx + 1] = value]
  ELSE [j \in 1..(idx + 1) |->
          IF j <= Len(elems) THEN elems[j]
          ELSE IF j = idx + 1 THEN value ELSE [t |-> "undefined"]]

\* name[index] = value (interpreter.ts 167-182).
IndexAssignmentStep ==
  /\ AtStatement("IndexAssignment")
  /\ LET st1 == step(St)
         arr == get(st1.heap, Top.env, Stmt.name)
     IN
     IF Exceeded(st1) THEN Update(st1, stack, Thrown(LimitError(st1)))
     ELSE IF ~arr.ok THEN Update(st1, stack, Thrown(Error(arr.message)))
     ELSE IF arr.value.t # "array"
     THEN Update(st1, stack,
                 Thrown(RuntimeError(<<"'", Stmt.name, "' is not an array">>, st1.file,
                                     Stmt.line, Stmt.column, st1.callStack)))
     ELSE LET index == evaluateExpression(Stmt.index, Top.env, st1) IN
          IF index.kind = "error" THEN Update(index.st, stack, Thrown(index.error))
          ELSE IF index.value.t # "number"
          THEN Update(index.st, stack,
                      Thrown(RuntimeError(<<"Array index must be a number">>, st1.file,
                                          Stmt.line, Stmt.column, st1.callStack)))
          ELSE LET idx == floor(index.value)
                   length == Len(index.st.arrays[arr.value.ref])
               IN
               IF idx < 0 \/ idx >= length
               THEN Update(index.st, stack,
                           Thrown(RuntimeError(<<"Index ", ToString(idx), " out of bounds (length ",
                                                 ToString(length), ")">>, st1.file,
                                               Stmt.line, Stmt.column, st1.callStack)))
               ELSE LET value == evaluateExpression(Stmt.value, Top.env, index.st) IN
                    IF value.kind = "error" THEN Update(value.st, stack, Thrown(value.error))
                    ELSE Update([value.st EXCEPT !.arrays[arr.value.ref] =
                                   storeAt(@, idx, value.value)],
                                Advance(stack), NoRes)
  /\ LoaderUnchanged

ExpressionStatementStep == AtStatement("ExpressionStatement") /\ ExecValueStatement /\ LoaderUnchanged

ReturnStatementStep == AtStatement("ReturnStatement") /\ ExecValueStatement /\ LoaderUnchanged

\* The call of a user function ended (interpreter.ts 346-349), then the calling
\* statement uses its value.  A throw leaves the body before callStack.pop().
\* A break or continue of the body handed on to the caller.
CallReturnSignal ==
  /\ stack # <<>>
  /\ Top.k = "call"
  /\ res.kind # "none"
  /\ IF res.kind \in {"error", "break", "continue"}
     THEN Update([St EXCEPT !.callStack = IF res.kind = "error" THEN @
                                          ELSE SubSeq(@, 1, Len(@) - 1)],
                 Pop(stack), res)
     ELSE LET st1 == [St EXCEPT !.callStack = SubSeq(@, 1, Len(@) - 1)]
              value == IF res.kind = "return" THEN res.value ELSE NilV
              f == finish(Top.stmt, Top.env, value, st1)
          IN Update(f.st, IF f.res.kind = "none" THEN Advance(Pop(stack)) ELSE Pop(stack), f.res)
  /\ LoaderUnchanged

CallReturn ==
  /\ stack # <<>>
  /\ Top.k = "call"
  /\ res.kind # "none"
  /\ IF res.kind = "error" THEN Update(St, Pop(stack), res)
     ELSE LET st1 == [St EXCEPT !.callStack = SubSeq(@, 1, Len(@) - 1)]
              value == IF res.kind = "return" THEN res.value ELSE NilV
              f == finish(Top.stmt, Top.env, value, st1)
          IN Update(f.st, IF f.res.kind = "none" THEN Advance(Pop(stack)) ELSE Pop(stack), f.res)
  /\ LoaderUnchanged

FunctionDeclarationStep ==
  /\ AtStatement("FunctionDeclaration")
  /\ LET st1 == step(St) IN
     IF Exceeded(st1) THEN Update(st1, stack, Thrown(LimitError(st1)))
     ELSE Update([st1 EXCEPT !.heap = define(@, Top.env, Stmt.name, LuxFunction(Stmt, Top.env), TRUE)],
                 Advance(stack), NoRes)
  /\ LoaderUnchanged

BreakStatementStep ==
  /\ AtStatement("BreakStatement")
  /\ LET st1 == step(St) IN
     IF Exceeded(st1) THEN Update(st1, stack, Thrown(LimitError(st1)))
     ELSE Update(st1, stack, BreakSignal)
  /\ LoaderUnchanged

ContinueStatementStep ==
  /\ AtStatement("ContinueStatement")
  /\ LET st1 == step(St) IN
     IF Exceeded(st1) THEN Update(st1, stack, Thrown(LimitError(st1)))
     ELSE Update(st1, stack, ContinueSignal)
  /\ LoaderUnchanged

\* executeBlock (interpreter.ts 133-140): after the last statement it returns
\* nothing; a signal or a throw of a statement ends it at once.
executeBlock ==
  /\ stack # <<>>
  /\ Top.k = "block"
  /\ \/ /\ res.kind = "none"
        /\ Top.pc > Len(Top.stmts)
        /\ stack' = Pop(stack)
        /\ res' = NormalRes
     \/ /\ res.kind = "normal"
        /\ stack' = Advance(stack)
        /\ res' = NoRes
     \/ /\ res.kind \in {"return", "break", "continue", "error"}
        /\ stack' = Pop(stack)
        /\ res' = res
  /\ UNCHANGED <<heap, arrays, output>>
  /\ LoaderUnchanged

\* if / else if / else (interpreter.ts 204-219): the first truthy guard in order.
RECURSIVE selectAlternate(_, _, _, _)
selectAlternate(stmt, i, env, st) ==
  IF i > Len(stmt.alternateConditions)
  THEN Value(st, IF stmt.alternate.present THEN stmt.alternate ELSE NoBlock)
  ELSE LET c == evaluateExpression(stmt.alternateConditions[i].condition, env, st) IN
       IF c.kind # "value" THEN c
       ELSE IF isTruthy(c.value) THEN Value(c.st, ElseBlock(stmt.alternateConditions[i].body))
       ELSE selectAlternate(stmt, i + 1, env, c.st)

IfStatementStep ==
  /\ AtStatement("IfStatement")
  /\ LET st1 == step(St) IN
     IF Exceeded(st1) THEN Update(st1, stack, Thrown(LimitError(st1)))
     ELSE LET c == evaluateExpression(Stmt.condition, Top.env, st1)
              b == IF c.kind # "value" THEN c
                   ELSE IF isTruthy(c.value) THEN Value(c.st, ElseBlock(Stmt.consequent))
                   ELSE selectAlternate(Stmt, 1, Top.env, c.st)
          IN
          IF b.kind # "value" THEN Update(b.st, stack, Thrown(b.error))
          ELSE IF ~b.value.present THEN Update(b.st, Advance(stack), NoRes)
          ELSE LET h1 == NewEnvironment(b.st.heap, Top.env) IN
               Update([b.st EXCEPT !.heap = h1],
                      Append(stack, BlockFrame(b.value.body, Len(h1), "if")), NoRes)
  /\ LoaderUnchanged

WhileStatementStep ==
  /\ AtStatement("WhileStatement")
  /\ LET st1 == step(St) IN
     IF Exceeded(st1) THEN Update(st1, stack, Thrown(LimitError(st1)))
     ELSE Update(st1, Append(stack, [k |-> "while", stmt |-> Stmt, env |-> Top.env]), NoRes)
  /\ LoaderUnchanged

\* The loop of a while statement (interpreter.ts 221-229).
WhileLoop ==
  /\ stack # <<>>
  /\ Top.k = "while"
  /\ CASE res.kind \in {"none", "normal", "continue"} ->
            LET c == evaluateExpression(Top.stmt.condition, Top.env, St) IN
            IF c.kind # "value" THEN Update(c.st, Pop(stack), Thrown(c.error))
            ELSE IF ~isTruthy(c.value) THEN Update(c.st, Advance(Pop(stack)), NoRes)
            ELSE LET st1 == step(c.st) IN
                 IF Exceeded(st1) THEN Update(st1, Pop(stack), Thrown(LimitError(st1)))
                 ELSE LET h1 == NewEnvironment(st1.heap, Top.env) IN
                      Update([st1 EXCEPT !.heap = h1],
                             Append(stack, BlockFrame(Top.stmt.body, Len(h1), "while")), NoRes)
       [] res.kind = "break" -> Update(St, Advance(Pop(stack)), NoRes)
       [] res.kind \in {"return", "error"} -> Update(St, Pop(stack), res)
  /\ LoaderUnchanged

ForStatementStep ==
  /\ AtStatement("ForStatement")
  /\ LET st1 == step(St) IN
     IF Exceeded(st1) THEN Update(st1, stack, Thrown(LimitError(st1)))
     ELSE LET it == evaluateExpression(Stmt.iterable, Top.env, st1) IN
          IF it.kind # "value" THEN Update(it.st, stack, Thrown(it.error))
          ELSE IF it.value.t # "array"
          THEN Update(it.st, stack,
                      Thrown(RuntimeError(<<"for..in requires an array">>, it.st.file, Stmt.line,
                                          Stmt.column, it.st.callStack)))
          ELSE Update(it.st,
                      Append(stack, [k |-> "for", stmt |-> Stmt, env |-> Top.env,
                                     ref |-> it.value.ref, idx |-> 0]),
                      NoRes)
  /\ LoaderUnchanged

\* The loop of a for statement (interpreter.ts 236-244); the host iterator
\* compares its index with the array's current length before each element.
ForLoop ==
  /\ stack # <<>>
  /\ Top.k = "for"
  /\ CASE res.kind \in {"none", "normal", "continue"} ->
            IF Top.idx >= Len(arrays[Top.ref]) THEN Update(St, Advance(Pop(stack)), NoRes)
            ELSE LET st1 == step(St) IN
                 IF Exceeded(st1) THEN Update(st1, Pop(stack), Thrown(LimitError(st1)))
                 ELSE LET h1 == NewEnvironment(st1.heap, Top.env)
                          h2 == define(h1, Len(h1), Top.stmt.variable,
                                       arrays[Top.ref][Top.idx + 1], FALSE)
                      IN Update([st1 EXCEPT !.heap = h2],
                                [stack EXCEPT ![Len(stack)].idx = @ + 1]
                                  \o <<BlockFrame(Top.stmt.body, Len(h1), "for")>>,
                                NoRes)
       [] res.kind = "break" -> Update(St, Advance(Pop(stack)), NoRes)
       [] res.kind \in {"return", "error"} -> Update(St, Pop(stack), res)
  /\ LoaderUnchanged

TryCatchStatementStep ==
  /\ AtStatement("TryCatchStatement")
  /\ LET st1 == step(St) IN
     IF Exceeded(st1) THEN Update(st1, stack, Thrown(LimitError(st1)))
     ELSE LET h1 == NewEnvironment(st1.heap, Top.env) IN
          Update([st1 EXCEPT !.heap = h1],
                 stack \o <<[k |-> "try", stmt |-> Stmt, env |-> Top.env],
                            BlockFrame(Stmt.tryBody, Len(h1), "try")>>,
                 NoRes)
  /\ LoaderUnchanged

\* Signals raised as host exceptions would be caught as well.
catchesSignals(r) == r.kind \in {"error", "return", "break", "continue"}

\* The formatted error instead of its message.
errorMsgFormatted(e) == format(e)

\* What `catch (e)` of the try statement receives: signals are returned by
\* executeBlock, only errors are thrown.
catches(r) == r.kind = "error"

\* The string bound to the catch variable (interpreter.ts 260).
errorMsg(e) == e.message

\* The try body ended (interpreter.ts 253-267): a signal is returned, a throw
\* starts the catch body, whose own result is returned in the same way.
TryCatch ==
  /\ stack # <<>>
  /\ Top.k = "try"
  /\ res.kind # "none"
  /\ CASE catches(res) ->
            LET h1 == NewEnvironment(heap, Top.env)
                catchEnv == Len(h1)
            IN Update([St EXCEPT !.heap = define(h1, catchEnv, Top.stmt.catchVariable,
                                                 StrV(IF res.kind = "error"
                                                      THEN errorMsg(res.error)
                                                      ELSE <<"[object Object]">>), FALSE)],
                      Append(Pop(stack), BlockFrame(Top.stmt.catchBody, catchEnv, "catch")),
                      NoRes)
       [] ~catches(res) /\ res.kind = "normal" -> Update(St, Advance(Pop(stack)), NoRes)
       [] ~catches(res) /\ res.kind \in {"return", "break", "continue"} ->
            Update(St, Pop(stack), res)
  /\ LoaderUnchanged

\* ── Module loader (module-loader.ts) ────────────────────────────────────
\* A path is a sequence of symbols; all files live in one directory, so
\* path.resolve(dir, importPath) is importPath.
MainPath == <<"main", ".lux">>

resolve(importPath) ==
  IF importPath # <<>> /\ importPath[Len(importPath)] = ".lux" THEN importPath
  ELSE importPath \o <<".lux">>

\* files[p] = [ok |-> the lexer and parser accept it, body |-> its program].
existsSync(p) == p \in DOMAIN files

\* Every own binding is exported.
ExportsEverything(entry) == TRUE

Exportable(entry) == entry.value.t \in {"function", "builtin"} \/ entry.constant

\* mergeExports without the has() tests: an export replaces a global binding.
mergeExportsOverwriting(h, moduleEnv) ==
  LET own == h[moduleEnv].vars
      new == {n \in DOMAIN own : Exportable(own[n])}
  IN [h EXCEPT ![GlobalEnv].vars =
        [n \in (DOMAIN @) \cup new |->
           IF n \in new THEN [value |-> own[n].value, constant |-> own[n].constant]
           ELSE @[n]]]

mergeExports(h, moduleEnv) ==
  LET own == h[moduleEnv].vars
      new == {n \in DOMAIN own : Exportable(own[n]) /\ ~has(h, GlobalEnv, n)}
  IN [h EXCEPT ![GlobalEnv].vars =
        [n \in (DOMAIN @) \cup new |->
           IF n \in DOMAIN @ THEN @[n]
           ELSE [value |-> own[n].value,
                 constant |-> IF own[n].value.t \in {"function", "builtin"}
                              THEN own[n].constant ELSE TRUE]]]

\* One counter for the loader: a module goes on from the importer's count.
InterpretFrameShared(file, genv, module, before) ==
  [k |-> "interpret", file |-> file, steps |-> IF stack = <<>> THEN 0 ELSE Cur.steps,
   callStack |-> <<>>, genv |-> genv, module |-> module, before |-> before]

\* `before` is history: the global bindings when this activation started.
InterpretFrame(file, genv, module, before) ==
  [k |-> "interpret", file |-> file, steps |-> 0, callStack |-> <<>>, genv |-> genv,
   module |-> module, before |-> before]

\* No finally: the mark stays.
noDelete(marks, resolved) == marks

\* finally { this.loading.delete(resolved) } (module-loader.ts 123-125).
finallyDelete(marks, resolved) == marks \ {resolved}

\* import: the callback of the loader, importModule up to the nested interpret().
ImportStatementStep ==
  /\ AtStatement("ImportStatement")
  /\ LET st1 == step(St)
         resolved == resolve(Stmt.path)
     IN
     IF Exceeded(st1)
     THEN Update(st1, stack, Thrown(LimitError(st1))) /\ UNCHANGED <<cache, loading, evalCount>>
     ELSE IF resolved \in loading
     THEN /\ Update(st1, stack, Thrown(Error(<<"Circular import detected", ": ">> \o resolved)))
          /\ UNCHANGED <<cache, loading, evalCount>>
     ELSE IF resolved \in DOMAIN cache
     THEN /\ Update([st1 EXCEPT !.heap = mergeExports(@, cache[resolved])], Advance(stack), NoRes)
          /\ UNCHANGED <<cache, loading, evalCount>>
     ELSE IF ~existsSync(resolved)
     THEN /\ Update(st1, stack, Thrown(Error(<<"Module not found", ": ">> \o resolved)))
          /\ UNCHANGED <<cache, loading, evalCount>>
     ELSE IF ~files[resolved].ok
     THEN \* the lexer or parser throws inside try: finally removes the mark again
          /\ Update(st1, stack, Thrown(ParseError(<<"Unexpected token">>, resolved, 1, 1)))
          /\ loading' = finallyDelete(loading \cup {resolved}, resolved)
          /\ UNCHANGED <<cache, evalCount>>
     ELSE LET h1 == NewEnvironment(st1.heap, GlobalEnv)
              moduleEnv == Len(h1)
          IN /\ heap' = h1
             /\ stack' = [stack EXCEPT ![CurI(stack)].steps = st1.steps]
                           \o <<InterpretFrame(resolved, moduleEnv, TRUE, st1.heap[GlobalEnv].vars),
                                BlockFrame(files[resolved].body, moduleEnv, "program")>>
             /\ res' = NoRes
             /\ loading' = loading \cup {resolved}
             /\ evalCount' = [evalCount EXCEPT ![resolved] = @ + 1]
             /\ UNCHANGED <<arrays, output, cache>>
  /\ UNCHANGED <<parser, repl, files, runResult>>

\* The end of interpret (interpreter.ts 424-433): the error it returns.
\* interpret never reporting an error.
resultNull(r) == Null

resultError(r) ==
  IF r.kind # "error" THEN Null
  ELSE IF r.error.name = "RuntimeError" THEN ErrorText(format(r.error))
  ELSE ErrorText(r.error.message)

\* interpret returned to importModule (module-loader.ts 114-125).
importModuleReturn ==
  /\ stack # <<>>
  /\ Top.k = "interpret"
  /\ Top.module
  /\ res.kind # "none"
  /\ LET resolved == Top.file
         error == resultError(res)
     IN
     IF ~error.null
     THEN /\ stack' = Pop(stack)
          /\ res' = Thrown(Error(<<"Error in module ">> \o resolved \o <<": ">> \o error.text))
          /\ loading' = finallyDelete(loading, resolved)
          /\ UNCHANGED <<heap, cache>>
     ELSE /\ cache' = [p \in (DOMAIN cache) \cup {resolved} |->
                         IF p = resolved THEN Top.genv ELSE cache[p]]
          /\ heap' = mergeExports(heap, Top.genv)
          /\ loading' = finallyDelete(loading, resolved)
          /\ stack' = Advance(Pop(stack))
          /\ res' = NoRes
  /\ UNCHANGED <<parser, repl, files, arrays, output, runResult, evalCount>>

\* runFile (module-loader.ts 42-67), up to the call of interpret.
runFile ==
  /\ stack = <<>>
  /\ ~runResult.done
  /\ IF ~files[MainPath].ok
     THEN /\ runResult' = [done |-> TRUE, steps |-> 0,
                           error |-> ErrorText(format(ParseError(<<"Unexpected token">>, MainPath, 1, 1)))]
          /\ UNCHANGED <<stack, evalCount>>
     ELSE /\ stack' = <<InterpretFrame(MainPath, GlobalEnv, FALSE, heap[GlobalEnv].vars),
                        BlockFrame(files[MainPath].body, GlobalEnv, "program")>>
          /\ evalCount' = [evalCount EXCEPT ![MainPath] = @ + 1]
          /\ UNCHANGED runResult
  /\ UNCHANGED <<parser, repl, files, heap, arrays, output, res, cache, loading>>

\* interpret returned to runFile (module-loader.ts 60).
runFileReturn ==
  /\ stack # <<>>
  /\ Top.k = "interpret"
  /\ ~Top.module
  /\ res.kind # "none"
  /\ runResult' = [done |-> TRUE, steps |-> Top.steps, error |-> resultError(res)]
  /\ stack' = Pop(stack)
  /\ res' = NoRes
  /\ UNCHANGED <<parser, repl, files, heap, arrays, output, cache, loading, evalCount>>

\* ── Programs that are enumerated ────────────────────────────────────────
Println(expr) == ExpressionStatement(CallExpression("println", <<expr>>))

DivByZero == BinaryExpression("/", NumberLiteral(1), NumberLiteral(0))

Forever == WhileStatement(BooleanLiteral(TRUE), <<>>)

\* Statements of a main file that imports nothing.
CorePool ==
  << LetDeclaration("x", NumberLiteral(1)),
     ConstDeclaration("x", NumberLiteral(2)),
     Assignment("x", NumberLiteral(3)),
     FunctionDeclaration("x", <<>>, <<ReturnStatement(NumberLiteral(4))>>),
     LetDeclaration("println", NumberLiteral(5)),
     Println(Identifier("x")),
     IfStatement(BooleanLiteral(TRUE), <<Assignment("x", NumberLiteral(6))>>, <<>>, NoBlock),
     IfStatement(BooleanLiteral(FALSE), <<>>,
                 <<[condition |-> Identifier("x"), body |-> <<LetDeclaration("x", NilLiteral)>>]>>,
                 ElseBlock(<<ConstDeclaration("y", NumberLiteral(7))>>)),
     FunctionDeclaration("f", <<"p">>,
        <<TryCatchStatement(<<ReturnStatement(Identifier("p")), Println(StringLiteral(<<"skipped">>))>>,
                            "e", <<Println(StringLiteral(<<"caught">>))>>),
          ReturnStatement(NumberLiteral(0))>>),
     FunctionDeclaration("f", <<>>,
        <<TryCatchStatement(<<LetDeclaration("y", DivByZero)>>,
                            "e", <<ReturnStatement(Identifier("e")), Println(StringLiteral(<<"skipped">>))>>),
          ReturnStatement(NumberLiteral(0))>>),
     LetDeclaration("y", CallExpression("f", <<NumberLiteral(8)>>)),
     Assignment("x", CallExpression("f", <<NumberLiteral(8)>>)),
     WhileStatement(BooleanLiteral(TRUE),
        <<TryCatchStatement(<<BreakStatement, Println(StringLiteral(<<"skipped">>))>>,
                            "e", <<Println(StringLiteral(<<"caught">>))>>),
          Println(StringLiteral(<<"skipped">>))>>),
     ForStatement("i", ArrayLiteral(<<NumberLiteral(1), NumberLiteral(2)>>),
        <<TryCatchStatement(<<ContinueStatement, Println(StringLiteral(<<"skipped">>))>>,
                            "e", <<Println(StringLiteral(<<"caught">>))>>),
          Println(StringLiteral(<<"skipped">>))>>),
     TryCatchStatement(<<LetDeclaration("y", DivByZero), Println(StringLiteral(<<"skipped">>))>>,
                       "e", <<Println(Identifier("e"))>>),
     TryCatchStatement(<<Assignment("x", NumberLiteral(9))>>, "e", <<Assignment("x", Identifier("e"))>>),
     TryCatchStatement(<<Forever>>, "e", <<>>),
     TryCatchStatement(<<Forever>>, "e", <<Println(Identifier("e"))>>),
     Forever,
     Println(Identifier("e")),
     ReturnStatement(NoExpr) >>

\* Statements of a main file that imports.
LoaderPool ==
  << ImportStatement(<<"a">>),
     ImportStatement(<<"a", ".lux">>),
     TryCatchStatement(<<ImportStatement(<<"a">>)>>, "e", <<>>),
     ImportStatement(<<"b">>),
     ImportStatement(<<"missing">>),
     LetDeclaration("x", NumberLiteral(1)),
     ConstDeclaration("k", NumberLiteral(0)),
     Println(Identifier("k")) >>

Parsed(body) == [ok |-> TRUE, body |-> body]

\* let name = callee(args): the call is the whole value of the statement.
LetCall(name, callee, args) == LetDeclaration(name, CallExpression(callee, args))

\* A main file that declares functions reading x and loc, and callers that
\* bind the same names locally.
ScopePrelude ==
  << LetDeclaration("x", NumberLiteral(1)),
     FunctionDeclaration("show", <<>>, <<ReturnStatement(Identifier("x"))>>),
     FunctionDeclaration("peek", <<>>, <<ReturnStatement(Identifier("loc"))>>),
     FunctionDeclaration("caller", <<"x">>,
        <<LetDeclaration("loc", NumberLiteral(5)),
          LetCall("r", "show", <<>>),
          ReturnStatement(Identifier("r"))>>),
     FunctionDeclaration("spy", <<>>,
        <<LetDeclaration("loc", NumberLiteral(5)),
          LetCall("r", "peek", <<>>),
          ReturnStatement(Identifier("r"))>>),
     FunctionDeclaration("outer", <<"x">>,
        <<FunctionDeclaration("inner", <<>>, <<ReturnStatement(Identifier("x"))>>),
          LetCall("r", "inner", <<>>),
          ReturnStatement(Identifier("r"))>>) >>

ScopePool ==
  << LetCall("y", "caller", <<NumberLiteral(7)>>),
     LetCall("z", "spy", <<>>),
     LetCall("w", "outer", <<NumberLiteral(7)>>),
     LetCall("v", "show", <<>>),
     Assignment("x", NumberLiteral(2)),
     TryCatchStatement(<<LetCall("z", "spy", <<>>)>>, "e", <<>>) >>

\* The counter closure of the test "handles closures" (index.ts 111-114).
CounterPrelude ==
  << FunctionDeclaration("make_counter", <<>>,
        <<LetDeclaration("count", NumberLiteral(0)),
          FunctionDeclaration("inc", <<>>,
             <<Assignment("count", BinaryExpression("+", Identifier("count"), NumberLiteral(1))),
               ReturnStatement(Identifier("count"))>>),
          ReturnStatement(Identifier("inc"))>>),
     LetCall("c", "make_counter", <<>>) >>

CounterPool ==
  << LetCall("a", "c", <<>>),
     LetCall("b", "c", <<>>),
     ExpressionStatement(CallExpression("c", <<>>)),
     LetCall("c2", "make_counter", <<>>),
     LetCall("d", "c2", <<>>) >>

\* Operands of `and` and `or`: left ones of every truthiness, right ones with
\* a side effect, with an error, or with neither.
LeftOperands ==
  { BooleanLiteral(FALSE), BooleanLiteral(TRUE), NumberLiteral(0), NumberLiteral(1),
    HalfLiteral(0), NilLiteral, StringLiteral(<<>>), StringLiteral(<<"s">>),
    ArrayLiteral(<<>>), CallExpression("println", <<StringLiteral(<<"a">>)>>) }

RightOperands ==
  { CallExpression("println", <<StringLiteral(<<"b">>)>>), DivByZero, NumberLiteral(2) }

LogicProgram(operator, left, right) ==
  Parsed(<<LetDeclaration("y", BinaryExpression(operator, left, right)),
           Println(Identifier("y"))>>)

\* if cond then body end
If(condition, body) == IfStatement(condition, body, <<>>, NoBlock)

Numbers(ns) == ArrayLiteral([i \in DOMAIN ns |-> NumberLiteral(ns[i])])

Say(text) == Println(StringLiteral(<<text>>))

\* Main files with break, continue and return in loops, and what they print.
LoopPrograms ==
  << [body |-> << ForStatement("i", Numbers(<<1, 2>>),
                     << ForStatement("j", Numbers(<<1, 2>>),
                           << If(BinaryExpression("==", Identifier("j"), NumberLiteral(2)),
                                 <<BreakStatement>>),
                              Println(Identifier("j")) >>),
                        Say("inner done") >>),
                  Say("done") >>,
      prints |-> << <<"1">>, <<"inner done">>, <<"1">>, <<"inner done">>, <<"done">> >>],
     [body |-> << ForStatement("i", Numbers(<<1, 2, 3>>),
                     << If(BinaryExpression("==", Identifier("i"), NumberLiteral(2)),
                           <<ContinueStatement, Say("skipped")>>),
                        Println(Identifier("i")) >>),
                  Say("done") >>,
      prints |-> << <<"1">>, <<"3">>, <<"done">> >>],
     [body |-> << LetDeclaration("i", NumberLiteral(0)),
                  WhileStatement(BinaryExpression("<", Identifier("i"), NumberLiteral(3)),
                     << Assignment("i", BinaryExpression("+", Identifier("i"), NumberLiteral(1))),
                        If(BinaryExpression("==", Identifier("i"), NumberLiteral(2)),
                           <<ContinueStatement>>),
                        Println(Identifier("i")) >>),
                  Say("done") >>,
      prints |-> << <<"1">>, <<"3">>, <<"done">> >>],
     [body |-> << FunctionDeclaration("f", <<>>,
                     << ForStatement("i", Numbers(<<1, 2>>),
                           << WhileStatement(BooleanLiteral(TRUE),
                                 <<ReturnStatement(Identifier("i")), Say("skipped")>>),
                              Say("skipped") >>),
                        Say("skipped") >>),
                  LetCall("r", "f", <<>>),
                  Println(Identifier("r")) >>,
      prints |-> << <<"1">> >>],
     [body |-> << LetDeclaration("i", NumberLiteral(0)),
                  WhileStatement(BooleanLiteral(TRUE),
                     << If(BinaryExpression("==", Identifier("i"), NumberLiteral(3)),
                           <<BreakStatement>>),
                        Assignment("i", BinaryExpression("+", Identifier("i"), NumberLiteral(1))) >>),
                  Println(Identifier("i")) >>,
      prints |-> << <<"3">> >>] >>

Call(callee, args) == ExpressionStatement(CallExpression(callee, args))

\* One array reached through a second variable, a parameter, a captured
\* parameter and a for variable.
ArrayPrelude ==
  << LetDeclaration("a", Numbers(<<1, 2>>)),
     LetDeclaration("b", Identifier("a")),
     FunctionDeclaration("add", <<"p">>,
        <<Call("push", <<Identifier("p"), NumberLiteral(3)>>)>>),
     FunctionDeclaration("keep", <<"q">>,
        <<FunctionDeclaration("put", <<>>,
             <<IndexAssignment("q", NumberLiteral(0), NumberLiteral(9))>>),
          ReturnStatement(Identifier("put"))>>) >>

ArrayPool ==
  << Call("push", <<Identifier("b"), NumberLiteral(4)>>),
     LetDeclaration("x", CallExpression("pop", <<Identifier("b")>>)),
     IndexAssignment("b", NumberLiteral(1), NumberLiteral(8)),
     Call("add", <<Identifier("a")>>),
     LetCall("put", "keep", <<Identifier("a")>>),
     Call("put", <<>>),
     ForStatement("row", ArrayLiteral(<<Identifier("a")>>),
        <<Call("push", <<Identifier("row"), NumberLiteral(5)>>)>>),
     Println(Identifier("a")) >>

\* Indices on both sides of every bound of an array of length 2.
IndexOperands ==
  << NumberLiteral(0), HalfLiteral(0), NumberLiteral(1), HalfLiteral(1), NumberLiteral(2),
     UnaryExpression("-", HalfLiteral(0)), UnaryExpression("-", NumberLiteral(1)),
     UnaryExpression("-", HalfLiteral(1)) >>

IndexPrelude == << LetDeclaration("a", Numbers(<<1, 2>>)) >>

\* let a = [1, 2], then a[index] = 9 or let x = a[index], then a print.
IndexProgram(index, write) ==
  Parsed(IndexPrelude \o
         IF write
         THEN << IndexAssignment("a", index, NumberLiteral(9)), Println(Identifier("a")) >>
         ELSE << LetDeclaration("x", IndexExpression(Identifier("a"), index)),
                 Println(Identifier("x")) >>)

\* A function without return, one that returns its parameter, and the
\* factorial of index.ts 80 with the recursive call as a statement of its own.
CallPrelude ==
  << FunctionDeclaration("f", <<"p", "q">>,
        <<Println(Identifier("p")), Println(Identifier("q"))>>),
     FunctionDeclaration("g", <<"p">>, <<ReturnStatement(Identifier("p"))>>),
     FunctionDeclaration("fac", <<"n">>,
        <<If(BinaryExpression("<=", Identifier("n"), NumberLiteral(1)),
             <<ReturnStatement(NumberLiteral(1))>>),
          LetCall("r", "fac", <<BinaryExpression("-", Identifier("n"), NumberLiteral(1))>>),
          ReturnStatement(BinaryExpression("*", Identifier("n"), Identifier("r")))>>) >>

\* Calls with fewer, as many and more arguments than parameters.
CallArguments ==
  << [callee |-> "f", arguments |-> <<>>],
     [callee |-> "f", arguments |-> <<NumberLiteral(1)>>],
     [callee |-> "f", arguments |-> <<NumberLiteral(1), NumberLiteral(2)>>],
     [callee |-> "f", arguments |-> <<NumberLiteral(1), NumberLiteral(2),
                                      CallExpression("println", <<NumberLiteral(7)>>)>>],
     [callee |-> "g", arguments |-> <<>>],
     [callee |-> "g", arguments |-> <<NumberLiteral(5), NumberLiteral(6)>>],
     [callee |-> "fac", arguments |-> <<NumberLiteral(1)>>],
     [callee |-> "fac", arguments |-> <<NumberLiteral(3)>>],
     [callee |-> "fac", arguments |-> <<NumberLiteral(4), NumberLiteral(0)>>] >>

\* let v = callee(arguments), then println(v).
CallProgram(call) ==
  Parsed(CallPrelude \o << LetCall("v", call.callee, call.arguments), Println(Identifier("v")) >>)

\* try println(y) catch e println("unbound") end
ProbeY == TryCatchStatement(<<Println(Identifier("y"))>>, "e", <<Say("unbound")>>)

\* Bodies that declare a name of the enclosing scope, or a name of their own
\* that the next round looks for; the first is the test of index.ts 117.
BlockPrograms ==
  << [body |-> << LetDeclaration("x", StringLiteral(<<"outer">>)),
                  If(BooleanLiteral(TRUE),
                     <<LetDeclaration("x", StringLiteral(<<"inner">>)), Println(Identifier("x"))>>),
                  Println(Identifier("x")) >>,
      prints |-> << <<"inner">>, <<"outer">> >>],
     [body |-> << LetDeclaration("x", NumberLiteral(1)),
                  IfStatement(BooleanLiteral(FALSE), <<>>,
                     <<[condition |-> BooleanLiteral(TRUE),
                        body |-> <<ConstDeclaration("x", NumberLiteral(2)),
                                   Println(Identifier("x"))>>]>>,
                     NoBlock),
                  Println(Identifier("x")) >>,
      prints |-> << <<"2">>, <<"1">> >>],
     [body |-> << LetDeclaration("x", NumberLiteral(1)),
                  IfStatement(BooleanLiteral(FALSE), <<>>, <<>>,
                     ElseBlock(<<FunctionDeclaration("x", <<>>, <<>>),
                                 LetDeclaration("x", NumberLiteral(3)),
                                 Println(Identifier("x"))>>)),
                  Println(Identifier("x")) >>,
      prints |-> << <<"3">>, <<"1">> >>],
     [body |-> << LetDeclaration("i", NumberLiteral(0)),
                  WhileStatement(BinaryExpression("<", Identifier("i"), NumberLiteral(2)),
                     << ProbeY,
                        LetDeclaration("y", Identifier("i")),
                        Assignment("i", BinaryExpression("+", Identifier("i"), NumberLiteral(1))) >>),
                  ProbeY >>,
      prints |-> << <<"unbound">>, <<"unbound">>, <<"unbound">> >>],
     [body |-> << ForStatement("v", Numbers(<<1, 2>>),
                     << ProbeY, LetDeclaration("y", Identifier("v")), Println(Identifier("y")) >>),
                  ProbeY >>,
      prints |-> << <<"unbound">>, <<"1">>, <<"unbound">>, <<"2">>, <<"unbound">> >>],
     [body |-> << LetDeclaration("x", NumberLiteral(1)),
                  TryCatchStatement(<<LetDeclaration("x", NumberLiteral(2)),
                                      LetDeclaration("y", DivByZero)>>,
                                    "e",
                                    <<ProbeY, LetDeclaration("x", NumberLiteral(3)),
                                      Println(Identifier("x"))>>),
                  Println(Identifier("x")) >>,
      prints |-> << <<"unbound">>, <<"3">>, <<"1">> >>] >>

\* Calls that end by an error: caught around the call, not caught from
\* two calls deep, and a call that returns before a later error.
\* a[1] = pop(a) and a[1] = pop(a) + pop(a) on a = [1, 2].
PopPrograms ==
  LET popA == CallExpression("pop", <<Identifier("a")>>)
      lenA == CallExpression("len", <<Identifier("a")>>)
  IN << << LetDeclaration("a", ArrayLiteral(<<NumberLiteral(1), NumberLiteral(2)>>)),
           IndexAssignment("a", NumberLiteral(1), popA),
           ExpressionStatement(CallExpression("println", <<lenA>>)) >>,
        << LetDeclaration("a", ArrayLiteral(<<NumberLiteral(1), NumberLiteral(2)>>)),
           IndexAssignment("a", NumberLiteral(1), BinaryExpression("+", popA, popA)),
           ExpressionStatement(CallExpression("println", <<lenA>>)) >> >>

\* for v in a whose body pushes onto a, or pops from a.
GrowPrograms ==
  << << LetDeclaration("a", ArrayLiteral(<<NumberLiteral(1)>>)),
        ForStatement("v", Identifier("a"),
           <<ExpressionStatement(CallExpression("push", <<Identifier("a"), Identifier("v")>>))>>),
        ExpressionStatement(CallExpression("println", <<StringLiteral(<<"done">>)>>)) >>,
     << LetDeclaration("a", ArrayLiteral(<<NumberLiteral(1), NumberLiteral(2)>>)),
        ForStatement("v", Identifier("a"),
           <<ExpressionStatement(CallExpression("pop", <<Identifier("a")>>))>>),
        ExpressionStatement(CallExpression("println", <<StringLiteral(<<"done">>)>>)) >> >>

\* A loop of the caller that calls a function whose body executes break or
\* continue outside any loop of its own.
SignalPrograms ==
  LET say(text) == ExpressionStatement(CallExpression("println", <<StringLiteral(<<text>>)>>))
      show(name) == ExpressionStatement(CallExpression("println", <<Identifier(name)>>))
      call == LetDeclaration("r", CallExpression("f", <<>>))
      guarded(signal) == IfStatement(BooleanLiteral(TRUE), <<signal>>, <<>>, NoBlock)
      twice == ArrayLiteral(<<NumberLiteral(1), NumberLiteral(2)>>)
  IN << [body |-> << FunctionDeclaration("f", <<>>, <<BreakStatement, say("unreached")>>),
                     ForStatement("i", twice, <<call, show("r")>>),
                     say("done") >>,
         prints |-> << <<"nil">>, <<"nil">>, <<"done">> >>],
        [body |-> << FunctionDeclaration("f", <<>>, <<ContinueStatement, say("unreached")>>),
                     ForStatement("i", twice, <<call, show("i")>>),
                     say("done") >>,
         prints |-> << <<"1">>, <<"2">>, <<"done">> >>],
        [body |-> << FunctionDeclaration("f", <<>>, <<guarded(BreakStatement), say("unreached")>>),
                     WhileStatement(BooleanLiteral(TRUE), <<call, show("r"), BreakStatement>>),
                     say("done") >>,
         prints |-> << <<"nil">>, <<"done">> >>],
        [body |-> << FunctionDeclaration("f", <<>>, <<guarded(ContinueStatement), say("unreached")>>),
                     ForStatement("i", twice, <<call, show("i")>>),
                     say("done") >>,
         prints |-> << <<"1">>, <<"2">>, <<"done">> >>] >>

\* Endless loops in a try whose catch body, or the statement after it,
\* would print or assign.
BudgetPrograms ==
  LET forever(body) == WhileStatement(BooleanLiteral(TRUE), body)
      show(name) == ExpressionStatement(CallExpression("println", <<Identifier(name)>>))
      grow == Assignment("x", BinaryExpression("+", Identifier("x"), NumberLiteral(1)))
  IN << << LetDeclaration("x", NumberLiteral(0)),
           TryCatchStatement(<<forever(<<grow>>)>>, "e",
                             <<Assignment("x", NumberLiteral(0)), show("e")>>),
           show("x") >>,
        << LetDeclaration("x", NumberLiteral(0)),
           TryCatchStatement(<<forever(<<>>)>>, "e", <<>>),
           show("x") >>,
        << forever(<<TryCatchStatement(<<forever(<<>>)>>, "e", <<show("e")>>)>>) >>,
        << FunctionDeclaration("f", <<>>,
              <<TryCatchStatement(<<forever(<<>>)>>, "e", <<ReturnStatement(NumberLiteral(1))>>)>>),
           LetDeclaration("r", CallExpression("f", <<>>)),
           show("r") >> >>

StackPrograms ==
  << << FunctionDeclaration("boom", <<>>, <<LetDeclaration("y", DivByZero)>>),
        TryCatchStatement(<<Call("boom", <<>>)>>, "e", <<Println(Identifier("e"))>>),
        Println(Identifier("zz")) >>,
     << FunctionDeclaration("inner", <<>>, <<LetDeclaration("y", DivByZero)>>),
        FunctionDeclaration("outer", <<>>, <<Call("inner", <<>>)>>),
        Call("outer", <<>>) >>,
     << FunctionDeclaration("ok", <<>>, <<ReturnStatement(NumberLiteral(1))>>),
        LetCall("v", "ok", <<>>),
        Println(Identifier("zz")) >> >>

\* prelude followed by the chosen statements of pool
After(prelude, pool, ix) == Parsed(prelude \o [i \in DOMAIN ix |-> pool[ix[i]]])

Unparsable == [ok |-> FALSE, body |-> <<>>]

\* Contents of a.lux.
ModuleA ==
  << Parsed(<<ConstDeclaration("k", NumberLiteral(1)),
              LetDeclaration("v", NumberLiteral(2)),
              FunctionDeclaration("f", <<>>, <<ReturnStatement(Identifier("v"))>>),
              LetDeclaration("p", Identifier("println")),
              LetDeclaration("arr", ArrayLiteral(<<NumberLiteral(1)>>))>>),
     Parsed(<<Println(StringLiteral(<<"a">>)), LetDeclaration("y", DivByZero)>>),
     Parsed(<<ImportStatement(<<"b">>), ConstDeclaration("k", NumberLiteral(1))>>),
     Parsed(<<Println(StringLiteral(<<"a">>)), ImportStatement(<<"main">>)>>),
     Parsed(<<Assignment("x", NumberLiteral(9)), ConstDeclaration("k", NumberLiteral(5))>>),
     Parsed(<<Forever>>),
     Unparsable >>

\* Contents of b.lux.
ModuleB ==
  << Parsed(<<ConstDeclaration("k", NumberLiteral(2)),
              FunctionDeclaration("g", <<>>, <<>>)>>),
     Parsed(<<Println(StringLiteral(<<"b">>)), ImportStatement(<<"a">>)>>),
     Parsed(<<LetDeclaration("y", DivByZero)>>) >>

FileSystem(main, a, b) ==
  [p \in {MainPath, <<"a", ".lux">>, <<"b", ".lux">>} |->
     IF p = MainPath THEN main ELSE IF p = <<"a", ".lux">> THEN a ELSE b]

Program(pool, ix) == Parsed([i \in DOMAIN ix |-> pool[ix[i]]])

\* The built-ins, registered as constants (module-loader.ts 19-32).
InitialGlobal ==
  [vars |-> [n \in BuiltinNames |-> [value |-> BuiltinFunction(n), constant |-> TRUE]],
   parent |-> 0]

\* A main file with modules a and b, one of which ends with an error.
FailPrograms ==
  LET tryA == TryCatchStatement(<<ImportStatement(<<"a">>)>>, "e", <<>>)
      after == ExpressionStatement(CallExpression("println", <<StringLiteral(<<"after">>)>>))
      c == ConstDeclaration("c", NumberLiteral(7))
      h == FunctionDeclaration("h", <<>>, <<>>)
      y == LetDeclaration("y", BinaryExpression("/", NumberLiteral(1), NumberLiteral(0)))
  IN << [main |-> Parsed(<<tryA, after>>), a |-> Parsed(<<c, h, y>>), b |-> ModuleB[1]],
        [main |-> Parsed(<<ImportStatement(<<"a">>), after>>),
         a |-> Parsed(<<c, h, ImportStatement(<<"b">>)>>), b |-> Parsed(<<y>>)],
        [main |-> Parsed(<<tryA, after>>),
         a |-> Parsed(<<ImportStatement(<<"b">>), c, h, y>>), b |-> ModuleB[1]],
        [main |-> Parsed(<<tryA, after>>), a |-> Unparsable, b |-> ModuleB[1]] >>

\* A module with a private let and an exported function that assigns it;
\* main files that call the function twice and then read the let by name.
CounterModule ==
  Parsed(<< LetDeclaration("count", NumberLiteral(0)),
            FunctionDeclaration("inc", <<>>,
               << Assignment("count", BinaryExpression("+", Identifier("count"), NumberLiteral(1))),
                  ReturnStatement(Identifier("count")) >>) >>)

ExportPrograms ==
  LET show(name) == ExpressionStatement(CallExpression("println", <<Identifier(name)>>))
      call == CallExpression("inc", <<>>)
  IN << [body |-> << ImportStatement(<<"a">>), LetDeclaration("r", call), Assignment("r", call),
                     show("r"), show("count") >>,
         prints |-> << <<"2">> >>],
        [body |-> << LetDeclaration("count", NumberLiteral(10)), ImportStatement(<<"a">>),
                     LetDeclaration("r", call), Assignment("r", call), show("r"), show("count") >>,
         prints |-> << <<"2">>, <<"10">> >>] >>

Init ==
  /\ \/ \E n \in 1..MaxStmts : \E ix \in [1..n -> 1..Len(CorePool)] :
          files = FileSystem(Program(CorePool, ix), ModuleA[1], ModuleB[1])
     \/ \E n \in 1..MaxStmts : \E ix \in [1..n -> 1..Len(LoaderPool)] :
          \E a \in 1..Len(ModuleA) : \E b \in 1..Len(ModuleB) :
            files = FileSystem(Program(LoaderPool, ix), ModuleA[a], ModuleB[b])
     \/ files = FileSystem(Unparsable, ModuleA[1], ModuleB[1])
     \/ \E operator \in {"and", "or"} : \E left \in LeftOperands : \E right \in RightOperands :
          files = FileSystem(LogicProgram(operator, left, right), ModuleA[1], ModuleB[1])
     \/ \E p \in 1..Len(LoopPrograms) :
          files = FileSystem(Parsed(LoopPrograms[p].body), ModuleA[1], ModuleB[1])
     \/ \E i \in DOMAIN IndexOperands : \E write \in BOOLEAN :
          files = FileSystem(IndexProgram(IndexOperands[i], write), ModuleA[1], ModuleB[1])
     \/ \E i \in DOMAIN CallArguments :
          files = FileSystem(CallProgram(CallArguments[i]), ModuleA[1], ModuleB[1])
     \/ \E i \in DOMAIN PopPrograms :
          files = FileSystem(Parsed(PopPrograms[i]), ModuleA[1], ModuleB[1])
     \/ \E i \in DOMAIN GrowPrograms :
          files = FileSystem(Parsed(GrowPrograms[i]), ModuleA[1], ModuleB[1])
     \/ \E i \in DOMAIN FailPrograms :
          files = FileSystem(FailPrograms[i].main, FailPrograms[i].a, FailPrograms[i].b)
     \/ \E i \in DOMAIN SignalPrograms :
          files = FileSystem(Parsed(SignalPrograms[i].body), ModuleA[1], ModuleB[1])
     \/ \E i \in DOMAIN BudgetPrograms :
          files = FileSystem(Parsed(BudgetPrograms[i]), ModuleA[1], ModuleB[1])
     \/ \E i \in DOMAIN ExportPrograms :
          files = FileSystem(Parsed(ExportPrograms[i].body), CounterModule, ModuleB[1])
     \/ \E i \in DOMAIN StackPrograms :
          files = FileSystem(Parsed(StackPrograms[i]), ModuleA[1], ModuleB[1])
     \/ \E i \in DOMAIN BlockPrograms :
          files = FileSystem(Parsed(BlockPrograms[i].body), ModuleA[1], ModuleB[1])
     \/ \E n \in 1..MaxStmts : \E ix \in [1..n -> 1..Len(ArrayPool)] :
          files = FileSystem(After(ArrayPrelude, ArrayPool, ix), ModuleA[1], ModuleB[1])
     \/ \E n \in 1..MaxStmts : \E ix \in [1..n -> 1..Len(CounterPool)] :
          files = FileSystem(After(CounterPrelude, CounterPool, ix), ModuleA[1], ModuleB[1])
     \/ \E n \in 1..MaxStmts : \E ix \in [1..n -> 1..Len(ScopePool)] :
          files = FileSystem(After(ScopePrelude, ScopePool, ix), ModuleA[1], ModuleB[1])
  /\ heap = <<InitialGlobal>>
  /\ arrays = <<>>
  /\ output = <<>>
  /\ stack = <<>>
  /\ res = NoRes
  /\ cache = <<>>
  /\ loading = {}
  /\ runResult = [done |-> FALSE, steps |-> 0, error |-> Null]
  /\ evalCount = [p \in {MainPath, <<"a", ".lux">>, <<"b", ".lux">>} |-> 0]
  /\ parser = [tokens |-> <<>>, done |-> FALSE, result |-> NoExpr, pos |-> 1]
  /\ repl = [buffer |-> <<>>, depth |-> 0, closed |-> FALSE, fed |-> 0, line |-> <<>>,
             evaluated |-> <<>>, evals |-> 0]

Next ==
  \/ runFile
  \/ LetDeclarationStep
  \/ ConstDeclarationStep
  \/ AssignmentStep
  \/ IndexAssignmentStep
  \/ ExpressionStatementStep
  \/ FunctionDeclarationStep
  \/ ReturnStatementStep
  \/ BreakStatementStep
  \/ ContinueStatementStep
  \/ IfStatementStep
  \/ WhileStatementStep
  \/ WhileLoop
  \/ ForStatementStep
  \/ ForLoop
  \/ TryCatchStatementStep
  \/ TryCatch
  \/ ImportStatementStep
  \/ CallReturn
  \/ executeBlock
  \/ importModuleReturn
  \/ runFileReturn

Spec == Init /\ [][Next]_vars

\* ── Parser: expressions (repl.ts 519-723) ───────────────────────────────
\* Longest chain of binary operators that is parsed.
MaxOperators == 2

Token(type, value) == [type |-> type, value |-> value, line |-> 1, column |-> 1]

EOF == Token("EOF", "")

\* this.tokens[this.pos], positions counted from 1.
peek(tokens, pos) == tokens[pos]

\* What a parse method leaves: its expression and this.pos, or a thrown
\* ParseError.
Node(expr, pos) == [expr |-> expr, pos |-> pos, error |-> FALSE]

\* throw new ParseError(message, this.file, token.line, token.column)
Fail(message, token, pos) ==
  [expr |-> ParseError(message, <<"<stdin>">>, token.line, token.column),
   pos |-> pos, error |-> TRUE]

\* this.expect(type): the token after it, or the throw.
expect(tokens, pos, type) ==
  LET token == peek(tokens, pos) IN
  IF token.type # type
  THEN Fail(<<"Expected ", type, " but got ", token.type, " (\"", token.value, "\")">>,
             token, pos)
  ELSE [pos |-> pos + 1, error |-> FALSE]

\* Number(token.value) of a one-digit token.
Number(value) == CHOOSE n \in 0..9 : ToString(n) = value

RECURSIVE parseOr(_, _)
RECURSIVE parseAnd(_, _)
RECURSIVE parseEquality(_, _)
RECURSIVE parseComparison(_, _)
RECURSIVE parseAddition(_, _)
RECURSIVE parseMultiplication(_, _)
RECURSIVE parseExponent(_, _)
RECURSIVE parseUnary(_, _)
RECURSIVE parsePrimary(_, _)
RECURSIVE parseList(_, _, _)
RECURSIVE chainedIndex(_, _)

parseExpression(tokens, pos) == parseOr(tokens, pos)

\* The token types that the while loop of a method goes on with.
LoopTokens(method) ==
  CASE method = "parseOr" -> {"OR"}
    [] method = "parseAnd" -> {"AND"}
    [] method = "parseEquality" -> {"DOUBLE_EQUALS", "NOT_EQUALS"}
    [] method = "parseComparison" ->
         {"LESS_THAN", "GREATER_THAN", "LESS_EQUALS", "GREATER_EQUALS"}
    [] method = "parseAddition" -> {"PLUS", "MINUS"}
    [] method = "parseMultiplication" -> {"STAR", "SLASH", "PERCENT"}

\* node, or what follows once node is parsed: a ParseError thrown by a
\* method ends the methods that called it.
Bind(node, Rest(_)) == IF node.error THEN node ELSE Rest(node)

\* The method that parses the operands of a method.
RECURSIVE Operand(_, _, _)
Operand(method, tokens, pos) ==
  CASE method = "parseOr" -> parseAnd(tokens, pos)
    [] method = "parseAnd" -> parseEquality(tokens, pos)
    [] method = "parseEquality" -> parseComparison(tokens, pos)
    [] method = "parseComparison" -> parseAddition(tokens, pos)
    [] method = "parseAddition" -> parseMultiplication(tokens, pos)
    [] method = "parseMultiplication" -> parseExponent(tokens, pos)

\* while (peek is an operator of the method) { op = advance().value;
\* right = operand; left = BinaryExpression(op, left, right) } return left
RECURSIVE While(_, _, _)
While(method, tokens, left) ==
  IF left.error \/ peek(tokens, left.pos).type \notin LoopTokens(method) THEN left
  ELSE Bind(Operand(method, tokens, left.pos + 1), LAMBDA right :
         While(method, tokens,
               Node(BinaryExpression(peek(tokens, left.pos).value, left.expr, right.expr),
                    right.pos)))

parseOr(tokens, pos) == While("parseOr", tokens, parseAnd(tokens, pos))

parseAnd(tokens, pos) == While("parseAnd", tokens, parseEquality(tokens, pos))

parseEquality(tokens, pos) == While("parseEquality", tokens, parseComparison(tokens, pos))

parseComparison(tokens, pos) == While("parseComparison", tokens, parseAddition(tokens, pos))

parseAddition(tokens, pos) == While("parseAddition", tokens, parseMultiplication(tokens, pos))

parseMultiplication(tokens, pos) ==
  While("parseMultiplication", tokens, parseExponent(tokens, pos))

\* An exponent whose right operand is one unary expression: ^ grouped to
\* the left.
RECURSIVE leftCarets(_, _)
leftCarets(tokens, left) ==
  IF left.error \/ peek(tokens, left.pos).type # "CARET" THEN left
  ELSE Bind(parseUnary(tokens, left.pos + 1), LAMBDA right :
         leftCarets(tokens, Node(BinaryExpression("^", left.expr, right.expr), right.pos)))

parseExponentLeft(tokens, pos) == leftCarets(tokens, parseUnary(tokens, pos))

parseExponent(tokens, pos) ==
  Bind(parseUnary(tokens, pos), LAMBDA left :
    IF peek(tokens, left.pos).type = "CARET"
    THEN Bind(parseExponent(tokens, left.pos + 1), LAMBDA right :
           Node(BinaryExpression("^", left.expr, right.expr), right.pos))
    ELSE left)

parseUnary(tokens, pos) ==
  IF peek(tokens, pos).type = "NOT"
  THEN Bind(parseUnary(tokens, pos + 1), LAMBDA operand :
         Node(UnaryExpression("not", operand.expr), operand.pos))
  ELSE IF peek(tokens, pos).type = "MINUS"
  THEN Bind(parseUnary(tokens, pos + 1), LAMBDA operand :
         Node(UnaryExpression("-", operand.expr), operand.pos))
  ELSE parsePrimary(tokens, pos)

\* elements.push(parseExpression()); while (match(COMMA)) push the next.
parseList(tokens, pos, elements) ==
  Bind(parseExpression(tokens, pos), LAMBDA element :
    IF peek(tokens, element.pos).type = "COMMA"
    THEN parseList(tokens, element.pos + 1, Append(elements, element.expr))
    ELSE Node(Append(elements, element.expr), element.pos))

\* Handle chained index: func()[i] (repl.ts 694-700).
chainedIndex(tokens, node) ==
  IF peek(tokens, node.pos).type # "LBRACKET" THEN node
  ELSE Bind(parseExpression(tokens, node.pos + 1), LAMBDA index :
         Bind(expect(tokens, index.pos, "RBRACKET"), LAMBDA close :
           chainedIndex(tokens, Node(IndexExpression(node.expr, index.expr), close.pos))))

\* A list in brackets or parentheses, opened before pos: its elements and
\* the position after the closing token.
Listed(tokens, pos, closing) ==
  Bind(IF peek(tokens, pos).type # closing THEN parseList(tokens, pos, <<>>)
       ELSE Node(<<>>, pos),
       LAMBDA elements :
         Bind(expect(tokens, elements.pos, closing), LAMBDA close :
           Node(elements.expr, close.pos)))

parsePrimary(tokens, pos) ==
  LET token == peek(tokens, pos) IN
  CASE token.type = "NUMBER" -> Node(NumberLiteral(Number(token.value)), pos + 1)
    [] token.type = "TRUE" -> Node(BooleanLiteral(TRUE), pos + 1)
    [] token.type = "FALSE" -> Node(BooleanLiteral(FALSE), pos + 1)
    [] token.type = "NIL" -> Node(NilLiteral, pos + 1)
    [] token.type = "LPAREN" ->
         Bind(parseExpression(tokens, pos + 1), LAMBDA expr :
           Bind(expect(tokens, expr.pos, "RPAREN"), LAMBDA close :
             Node(expr.expr, close.pos)))
    [] token.type = "LBRACKET" ->
         Bind(Listed(tokens, pos + 1, "RBRACKET"), LAMBDA elements :
           Node(ArrayLiteral(elements.expr), elements.pos))
    [] token.type = "IDENTIFIER" ->
         IF peek(tokens, pos + 1).type = "LPAREN"
         THEN Bind(Listed(tokens, pos + 2, "RPAREN"), LAMBDA args :
                chainedIndex(tokens, Node(CallExpression(token.value, args.expr), args.pos)))
         ELSE IF peek(tokens, pos + 1).type = "LBRACKET"
         THEN Bind(parseExpression(tokens, pos + 2), LAMBDA index :
                Bind(expect(tokens, index.pos, "RBRACKET"), LAMBDA close :
                  Node(IndexExpression(Identifier(token.value), index.expr), close.pos)))
         ELSE Node(Identifier(token.value), pos + 1)
    [] OTHER -> Fail(<<"Unexpected token ", token.type, " (\"", token.value, "\")">>,
                      token, pos)

\* The binary operators, as the lexer hands them over.
BinaryOperators ==
  << Token("OR", "or"), Token("AND", "and"), Token("DOUBLE_EQUALS", "=="),
     Token("NOT_EQUALS", "!="), Token("LESS_THAN", "<"), Token("GREATER_THAN", ">"),
     Token("LESS_EQUALS", "<="), Token("GREATER_EQUALS", ">="), Token("PLUS", "+"),
     Token("MINUS", "-"), Token("STAR", "*"), Token("SLASH", "/"), Token("PERCENT", "%"),
     Token("CARET", "^") >>

UnaryOperators == << Token("NOT", "not"), Token("MINUS", "-") >>

OperandNames == <<"a", "b", "c", "d", "e">>

\* Operand i, after the unary operator when i = at: a op b op c ...
RECURSIVE Chain(_, _, _, _)
Chain(ops, at, unary, i) ==
  (IF at = i THEN <<unary>> ELSE <<>>) \o <<Token("IDENTIFIER", OperandNames[i])>>
    \o (IF i > Len(ops) THEN <<EOF>> ELSE <<ops[i]>> \o Chain(ops, at, unary, i + 1))

\* The examples of the tests, a parenthesized operand, an operand that is
\* missing and a parenthesis that is not closed.
TokenLines ==
  << << Token("NUMBER", "1"), Token("PLUS", "+"), Token("NUMBER", "2"), Token("STAR", "*"),
        Token("NUMBER", "3"), EOF >>,
     << Token("NUMBER", "2"), Token("CARET", "^"), Token("NUMBER", "3"), Token("CARET", "^"),
        Token("NUMBER", "2"), EOF >>,
     << Token("TRUE", "true"), Token("AND", "and"), Token("FALSE", "false"), Token("OR", "or"),
        Token("TRUE", "true"), EOF >>,
     << Token("LPAREN", "("), Token("IDENTIFIER", "a"), Token("PLUS", "+"),
        Token("IDENTIFIER", "b"), Token("RPAREN", ")"), Token("STAR", "*"),
        Token("NIL", "nil"), EOF >>,
     << Token("IDENTIFIER", "a"), Token("PLUS", "+"), EOF >>,
     << Token("LPAREN", "("), Token("IDENTIFIER", "a"), EOF >> >>

\* Longest chain of index brackets that is parsed.
MaxBrackets == 2

RECURSIVE Brackets(_)
Brackets(k) ==
  IF k = 0 THEN <<>>
  ELSE Brackets(k - 1) \o <<Token("LBRACKET", "["), Token("NUMBER", ToString(k)),
                             Token("RBRACKET", "]")>>

\* f, or f( ) with the first arity arguments of 7, 8.
Indexed(arity) ==
  <<Token("IDENTIFIER", "f")>> \o
  CASE arity = 0 -> <<>>
    [] arity = 1 -> <<Token("LPAREN", "("), Token("RPAREN", ")")>>
    [] arity = 2 -> <<Token("LPAREN", "("), Token("NUMBER", "7"), Token("RPAREN", ")")>>
    [] arity = 3 -> <<Token("LPAREN", "("), Token("NUMBER", "7"), Token("COMMA", ","),
                      Token("NUMBER", "8"), Token("RPAREN", ")")>>

\* f[1]...[k] or f(...)[1]...[k]
IndexLine(arity, k) == Indexed(arity) \o Brackets(k) \o <<EOF>>

ParserInit ==
  /\ \/ \E n \in 0..MaxOperators : \E ix \in [1..n -> DOMAIN BinaryOperators] :
          \E at \in 0..(n + 1) : \E u \in DOMAIN UnaryOperators :
            parser = [tokens |-> Chain([i \in 1..n |-> BinaryOperators[ix[i]]], at,
                                       UnaryOperators[u], 1),
                      done |-> FALSE, result |-> NoExpr, pos |-> 1]
     \/ \E i \in DOMAIN TokenLines :
          parser = [tokens |-> TokenLines[i], done |-> FALSE, result |-> NoExpr, pos |-> 1]
     \/ \E arity \in 0..3 : \E k \in 0..MaxBrackets :
          parser = [tokens |-> IndexLine(arity, k), done |-> FALSE, result |-> NoExpr,
                    pos |-> 1]
  /\ files = <<>>
  /\ heap = <<>>
  /\ arrays = <<>>
  /\ output = <<>>
  /\ stack = <<>>
  /\ res = NoRes
  /\ cache = <<>>
  /\ loading = {}
  /\ runResult = [done |-> FALSE, steps |-> 0, error |-> Null]
  /\ evalCount = <<>>
  /\ repl = [buffer |-> <<>>, depth |-> 0, closed |-> FALSE, fed |-> 0, line |-> <<>>,
             evaluated |-> <<>>, evals |-> 0]

\* The parser after the call returned node.
Returned(node) == [parser EXCEPT !.done = TRUE, !.result = node.expr, !.pos = node.pos]

\* One call of parseExpression on the tokens of a line.
parse ==
  /\ ~parser.done
  /\ parser' = Returned(parseExpression(parser.tokens, 1))
  /\ UNCHANGED <<files, heap, arrays, output, stack, res, cache, loading, runResult, evalCount,
               repl>>

ParserNext == parse

ParserSpec == ParserInit /\ [][ParserNext]_vars

\* ── Claims ──────────────────────────────────────────────────────────────
InProgress == {stack[i].file : i \in {j \in 1..Len(stack) : stack[j].k = "interpret"}}

ModulesInProgress ==
  {stack[i].file : i \in {j \in 1..Len(stack) : stack[j].k = "interpret" /\ stack[j].module}}

\* C1: a binding that is constant in a frame has the same value and the same
\* constant flag in that frame in every later state.
C1_ConstantBindingsNeverChange ==
  [][\A f \in 1..Len(heap) : \A n \in DOMAIN heap[f].vars :
       heap[f].vars[n].constant => heap'[f].vars[n] = heap[f].vars[n]]_vars

\* The frame of name x keeps its entry in this step.
BindingsKept(x) ==
  \A f \in 1..Len(heap) : x \in DOMAIN heap[f].vars => heap'[f].vars[x] = heap[f].vars[x]

NearestIsConstant(env, x) ==
  /\ has(heap, env, x)
  /\ heap[Lookup(heap, env, x)].vars[x].constant

ReassignFailure ==
  /\ res'.kind = "error"
  /\ res'.error.name = "RuntimeError"
  /\ Contains(res'.error.message, "Cannot reassign constant")

\* C2: an assignment whose nearest binding of the name is constant fails with
\* "Cannot reassign constant" once its value is evaluated (directly, or by a
\* user call that returns), and no frame's binding of the name changes.
C2_AssignToConstantFails ==
  [][/\ (AtStatement("Assignment") /\ NearestIsConstant(Top.env, Stmt.name))
          => /\ BindingsKept(Stmt.name)
             /\ res'.kind = "error" \/ Len(stack') = Len(stack) + 2
             /\ (~Exceeded(step(St))
                 /\ evaluateExpression(Stmt.value, Top.env, step(St)).kind = "value")
                   => ReassignFailure
     /\ (stack # <<>> /\ Top.k = "call" /\ Top.stmt.type = "Assignment"
         /\ res.kind \in {"normal", "return", "break", "continue"}
         /\ NearestIsConstant(Top.env, Top.stmt.name))
          => (BindingsKept(Top.stmt.name) /\ ReassignFailure)]_vars

\* C2 witness: the assignment failed on a constant found in an ancestor frame.
C2_Witness ==
  /\ stack # <<>>
  /\ Top.k = "block"
  /\ Top.pc <= Len(Top.stmts)
  /\ Stmt.type = "Assignment"
  /\ res.kind = "error"
  /\ Contains(res.error.message, "Cannot reassign constant")
  /\ Lookup(heap, Top.env, Stmt.name) \notin {0, Top.env}

\* C3: the body of the file at each resolved path is evaluated at most once.
C3_EvaluatedAtMostOnce == \A p \in DOMAIN evalCount : evalCount[p] <= 1

\* C4: an import of a file whose evaluation is in progress fails with
\* "Circular import detected", and no file is evaluated a second time.
C4_CircularImportFails ==
  [][(/\ AtStatement("ImportStatement")
      /\ ~Exceeded(step(St))
      /\ resolve(Stmt.path) \in InProgress)
       => /\ res'.kind = "error"
          /\ Contains(res'.error.message, "Circular import detected")
          /\ evalCount' = evalCount]_vars

\* C5: the loading set is exactly the set of module paths whose evaluation is
\* in progress; in particular it is empty when no import is in progress and
\* a path leaves it when its import returns or throws.
C5_LoadingIsInProgress == loading = ModulesInProgress

\* C5 witness: a nested import has thrown; its path left the set, the
\* importing module's path is still in it.
C5_Witness ==
  /\ res.kind = "error"
  /\ Contains(res.error.message, "Error in module ")
  /\ loading = {<<"a", ".lux">>}
  /\ evalCount[<<"b", ".lux">>] = 1

\* interpret of a module ended without error: importModule is about to cache
\* its environment and merge its exports.
FreshMerge ==
  /\ stack # <<>>
  /\ Top.k = "interpret"
  /\ Top.module
  /\ res.kind # "none"
  /\ resultError(res).null

\* An import statement is about to merge the exports of a cached module.
CachedMerge ==
  /\ AtStatement("ImportStatement")
  /\ ~Exceeded(step(St))
  /\ resolve(Stmt.path) \notin loading
  /\ resolve(Stmt.path) \in DOMAIN cache

Global == heap[GlobalEnv].vars

ExportRule(moduleEnv) ==
  \A n \in DOMAIN heap[moduleEnv].vars :
    n \notin DOMAIN Global =>
      LET entry == heap[moduleEnv].vars[n] IN
      /\ n \in DOMAIN Global' <=> (entry.value.t \in {"function", "builtin"} \/ entry.constant)
      /\ n \in DOMAIN Global' => Global'[n].value = entry.value

\* C6: when the exports of a successfully imported module M are merged, a name
\* of M's own frame that is not bound in the global environment becomes bound
\* there, with M's value, exactly if M's value is a user function or a
\* built-in or M's binding is constant; non-constant data is never added.
C6_ExportRule ==
  [][/\ FreshMerge => ExportRule(Top.genv)
     /\ CachedMerge => ExportRule(cache[resolve(Stmt.path)])]_vars

\* C6 witness: a.lux was imported; its constant, its function and its alias of
\* a built-in are global, its let-bound number and array are not.
C6_Witness ==
  /\ <<"a", ".lux">> \in DOMAIN cache
  /\ {"v", "arr"} \subseteq DOMAIN heap[cache[<<"a", ".lux">>]].vars
  /\ {"k", "f", "p"} \subseteq DOMAIN Global
  /\ Global["k"].value = NumV(1)
  /\ Global["f"].value.t = "function"
  /\ Global["p"] = [value |-> BuiltinFunction("println"), constant |-> FALSE]
  /\ "v" \notin DOMAIN Global
  /\ "arr" \notin DOMAIN Global

\* C7 as stated: every binding the global environment had before an import
\* has the same value and constant flag after the import.
C7_ImportKeepsGlobals ==
  [][(stack # <<>> /\ Top.k = "interpret" /\ Top.module /\ res.kind # "none")
       => \A n \in DOMAIN Top.before : Global'[n] = Top.before[n]]_vars

\* C7 amended: the merge of a module's exports (after a first import and on a
\* cache hit) leaves every existing global binding as it is; over the whole
\* import the constant flag of every earlier global binding and the value of
\* every constant one stay, only the value of a non-constant one can change,
\* by an assignment the module's body executes.
C7_MergeKeepsGlobals ==
  [][/\ (FreshMerge \/ CachedMerge) => \A n \in DOMAIN Global : Global'[n] = Global[n]
     /\ (stack # <<>> /\ Top.k = "interpret" /\ Top.module /\ res.kind # "none")
          => \A n \in DOMAIN Top.before :
               /\ Global'[n].constant = Top.before[n].constant
               /\ Top.before[n].constant => Global'[n] = Top.before[n]]_vars

\* C7 witness: the main file defined k = 0 and then imported a.lux, which
\* exports a constant k: the global k is still the main file's.
C7_Witness ==
  /\ Len(files[MainPath].body) >= 2
  /\ files[MainPath].body[1] = ConstDeclaration("k", NumberLiteral(0))
  /\ files[MainPath].body[2].type = "ImportStatement"
  /\ <<"a", ".lux">> \in DOMAIN cache
  /\ "k" \in DOMAIN heap[cache[<<"a", ".lux">>]].vars
  /\ heap[cache[<<"a", ".lux">>]].vars["k"].constant
  /\ "k" \in DOMAIN Global
  /\ Global["k"] = [value |-> NumV(0), constant |-> TRUE]

IsLimitError(r) ==
  /\ r.kind = "error"
  /\ r.error.name = "RuntimeError"
  /\ r.error.message = LimitMessage

\* C8: an evaluation by interpret that performed more than the limit of steps
\* returns the budget error, one that performed at most the limit does not.
C8_BudgetErrorReported ==
  (stack # <<>> /\ Top.k = "interpret" /\ res.kind # "none")
    => (Top.steps > STEP_LIMIT <=> IsLimitError(res))

NoLine(text) == \A i \in 1..Len(output) : output[i] # <<text>>

\* C9: a return, break or continue that reaches a try statement from its try
\* body leaves it as the same signal, the catch body is not started, the rest
\* of a try or catch body after the signal is skipped, and no line is printed
\* by a skipped statement or a catch body of such a try.
C9_SignalsPassTry ==
  [][/\ (stack # <<>> /\ Top.k = "try" /\ IsSignal(res))
          => (stack' = Pop(stack) /\ res' = res /\ heap' = heap /\ output' = output)
     /\ (stack # <<>> /\ Top.k = "block" /\ Top.role \in {"try", "catch"} /\ IsSignal(res))
          => (stack' = Pop(stack) /\ res' = res /\ heap' = heap /\ output' = output)
     /\ (runResult'.done /\ \A i \in 1..Len(files[MainPath].body) :
                               files[MainPath].body[i].type # "ImportStatement")
          => (NoLine("skipped")' /\ NoLine("caught")')]_vars

\* C9 witness: a return statement of a try body ran, its signal is at the try
\* statement, inside a user call.
C9_Witness ==
  /\ Len(stack) > 1
  /\ Top.k = "try"
  /\ res.kind = "return"
  /\ stack[Len(stack) - 1].k = "block"
  /\ stack[Len(stack) - 1].role = "function"

Undecorated(message) ==
  /\ ~Contains(message, "RuntimeError")
  /\ ~Contains(message, "\n  at ")

CallStarts ==
  /\ Len(stack') = Len(stack) + 2
  /\ stack'[Len(stack')].k = "block"
  /\ stack'[Len(stack')].role = "function"

\* The function whose body is the block on top of the stack.
Callee == stack[Len(stack) - 1].func

InBodyOf(name) ==
  /\ Len(stack) > 1
  /\ Top.k = "block"
  /\ Top.role = "function"
  /\ Callee.declaration.name = name

\* C11: a function value holds the environment in which its declaration was
\* executed; the body of a call runs in a child of that environment, not of
\* the call site's; a free identifier returned by the body is read from the
\* declaration chain (its binding there, or "Undefined variable" when it is
\* bound only at the call site).
C11_ClosureIsDeclarationEnv ==
  [][/\ (AtStatement("FunctionDeclaration") /\ ~Exceeded(step(St)))
          => LET f == heap'[Top.env].vars[Stmt.name].value IN
             /\ f.t = "function"
             /\ f.declaration = Stmt
             /\ f.closure = Top.env
     /\ CallStarts
          => /\ stack'[Len(stack')].env = Len(heap')
             /\ Len(heap') = Len(heap) + 1
             /\ heap'[Len(heap')].parent = stack'[Len(stack') - 1].func.closure
     /\ (/\ AtStatement("ReturnStatement")
         /\ Top.role = "function"
         /\ Stmt.value.type = "Identifier"
         /\ Stmt.value.name \notin DOMAIN heap[Top.env].vars
         /\ ~Exceeded(step(step(St))))
          => LET declared == get(heap, Callee.closure, Stmt.value.name) IN
             IF declared.ok THEN res' = ReturnSignal(declared.value)
             ELSE /\ res'.kind = "error"
                  /\ Contains(res'.error.message, "Undefined variable")]_vars

\* C11 witness: show returned the global x = 1 while the call site, the body
\* of caller, binds x = 7.
C11_Witness ==
  /\ InBodyOf("show")
  /\ res = ReturnSignal(NumV(1))
  /\ \E i \in 1..(Len(stack) - 2) :
       /\ stack[i].k = "call"
       /\ stack[i].func.declaration.name = "caller"
       /\ heap[stack[i + 1].env].vars["x"].value = NumV(7)
       /\ stack[Len(stack) - 1].env = stack[i + 1].env

\* Statement number i of the main file calls the function bound to name.
CallsAt(i, name) ==
  LET stmt == files[MainPath].body[i] IN
  /\ stmt.type \in {"LetDeclaration", "ExpressionStatement"}
  /\ ValueOf(stmt).type = "CallExpression"
  /\ ValueOf(stmt).callee = name

\* C12: an assignment to a captured local made by a call of the inner
\* function changes the frame of the enclosing call, which outlives that
\* call, and the inner function returns the value stored there; so the n-th
\* call of one counter returns n, and a second counter counts on its own.
C12_CapturedByReference ==
  /\ [][/\ (InBodyOf("inc") /\ AtStatement("Assignment") /\ res'.kind = "none")
             => /\ Callee.closure # Top.env
                /\ heap[Callee.closure].vars["count"].value.t = "number"
                /\ heap'[Callee.closure].vars["count"].value =
                     NumV(heap[Callee.closure].vars["count"].value.v + 1)
                /\ DOMAIN heap'[Top.env].vars = DOMAIN heap[Top.env].vars
        /\ (InBodyOf("inc") /\ AtStatement("ReturnStatement") /\ res'.kind = "return")
             => res'.value = heap[Callee.closure].vars["count"].value]_vars
  /\ [](\A name \in {"c", "c2"} :
          (runResult.done /\ runResult.error.null /\ files[MainPath].ok)
            => \A i \in 1..Len(files[MainPath].body) :
                 LET stmt == files[MainPath].body[i] IN
                 (/\ CallsAt(i, name)
                  /\ stmt.type = "LetDeclaration"
                  /\ name \in DOMAIN heap[GlobalEnv].vars
                  /\ heap[GlobalEnv].vars[name].value.t = "function"
                  /\ heap[GlobalEnv].vars[name].value.declaration.name = "inc"
                  /\ \A j \in (i + 1)..Len(files[MainPath].body) :
                       files[MainPath].body[j].type = "LetDeclaration"
                         => files[MainPath].body[j].name \notin {stmt.name, name})
                   => heap[GlobalEnv].vars[stmt.name].value =
                        NumV(Cardinality({j \in 1..i : CallsAt(j, name)})))

\* C12 witness: the second call of the counter returns 2 after make_counter
\* has returned.
C12_Witness ==
  /\ stack # <<>>
  /\ Top.k = "call"
  /\ Top.func.declaration.name = "inc"
  /\ res = ReturnSignal(NumV(2))
  /\ \A i \in 1..Len(stack) :
       stack[i].k = "call" => stack[i].func.declaration.name # "make_counter"

\* The statement about to run is `let y = left and/or right`.
AtLogic ==
  /\ AtStatement("LetDeclaration")
  /\ Stmt.value.type = "BinaryExpression"
  /\ Stmt.value.operator \in {"and", "or"}

\* What the step that binds name to the outcome r of an expression leaves.
Binds(name, r) ==
  /\ output' = r.st.output
  /\ arrays' = r.st.arrays
  /\ IF r.kind = "value"
     THEN /\ res' = NoRes
          /\ heap' = define(r.st.heap, Top.env, name, r.value, FALSE)
     ELSE /\ res' = Thrown(r.error)
          /\ heap' = r.st.heap

\* C13: `a and b` is a's value when a is falsy and `a or b` is a's value when
\* a is truthy, and then nothing of b happens (no output, no error, no step);
\* otherwise the result, the effects and the error are those of b evaluated
\* after a.
C13_ShortCircuit ==
  [][AtLogic =>
       LET expr == Stmt.value
           a == evaluateExpression(expr.left, Top.env, step(step(St)))
           b == evaluateExpression(expr.right, Top.env, a.st)
       IN
       a.kind = "value" =>
         IF \/ expr.operator = "and" /\ ~isTruthy(a.value)
            \/ expr.operator = "or" /\ isTruthy(a.value)
         THEN Binds(Stmt.name, a) /\ stack'[CurI(stack)].steps = a.st.steps
         ELSE Binds(Stmt.name, b) /\ stack'[CurI(stack)].steps = b.st.steps]_vars

\* C13 witness: `let y = 0 and println("b")` bound y to 0 and printed nothing;
\* the following println(y) then printed 0.
C13_Witness ==
  /\ files[MainPath] = LogicProgram("and", NumberLiteral(0),
                                    CallExpression("println", <<StringLiteral(<<"b">>)>>))
  /\ runResult.done
  /\ runResult.error.null
  /\ heap[GlobalEnv].vars["y"].value = NumV(0)
  /\ output = <<<<"0">>>>

\* The loop frame on top starts its next round: the guard of a while is
\* evaluated again, a for takes its next element, in a fresh block at the
\* first statement of the body, or the loop ends.
NextRound ==
  IF Top.k = "while"
  THEN LET c == evaluateExpression(Top.stmt.condition, Top.env, St) IN
       c.kind = "value" =>
         IF isTruthy(c.value)
         THEN /\ stack'[Len(stack') - 1] = [Top EXCEPT !.k = "while"]
              /\ stack'[Len(stack')].stmts = Top.stmt.body
              /\ stack'[Len(stack')].pc = 1
         ELSE stack' = Advance(Pop(stack))
  ELSE IF Top.idx < Len(arrays[Top.ref])
       THEN /\ stack'[Len(stack') - 1] = [Top EXCEPT !.idx = @ + 1]
            /\ stack'[Len(stack')].stmts = Top.stmt.body
            /\ stack'[Len(stack')].pc = 1
            /\ heap'[stack'[Len(stack')].env].vars[Top.stmt.variable].value =
                 arrays[Top.ref][Top.idx + 1]
       ELSE stack' = Advance(Pop(stack))

\* C14: a signal skips the rest of every block up to the innermost loop;
\* break ends that loop only and execution goes on with the statement after
\* it; continue starts the loop's next round; return leaves every loop
\* without another round and becomes the value of the call.
C14_LoopSignals ==
  /\ [][/\ (stack # <<>> /\ Top.k = "block" /\ IsSignal(res))
             => (stack' = Pop(stack) /\ res' = res /\ output' = output /\ heap' = heap)
        /\ (stack # <<>> /\ Top.k \in {"while", "for"} /\ res.kind = "break")
             => (stack' = Advance(Pop(stack)) /\ res' = NoRes /\ output' = output)
        /\ (stack # <<>> /\ Top.k \in {"while", "for"} /\ res.kind = "continue"
            /\ res'.kind # "error")
             => (NextRound /\ res' = NoRes /\ output' = output)
        /\ (stack # <<>> /\ Top.k \in {"while", "for"} /\ res.kind = "return")
             => (stack' = Pop(stack) /\ res' = res /\ output' = output)
        /\ (stack # <<>> /\ Top.k = "call" /\ res.kind = "return"
            /\ Top.stmt.type = "LetDeclaration")
             => heap'[Top.env].vars[Top.stmt.name].value = res.value]_vars
  /\ [](\A p \in 1..Len(LoopPrograms) :
          (runResult.done /\ files[MainPath] = Parsed(LoopPrograms[p].body))
            => (runResult.error.null /\ output = LoopPrograms[p].prints))

\* C14 witness: the break of the inner for loop has reached it in the second
\* round of the outer loop; the outer loop is still on the stack.
C14_Witness ==
  /\ Len(stack) > 3
  /\ Top.k = "for"
  /\ Top.stmt.variable = "j"
  /\ res.kind = "break"
  /\ \E i \in 1..(Len(stack) - 1) :
       stack[i].k = "for" /\ stack[i].stmt.variable = "i" /\ stack[i].idx = 2
  /\ output = << <<"1">>, <<"inner done">>, <<"1">> >>

\* The main file starts with prelude.
StartsWith(prelude) ==
  /\ files[MainPath].ok
  /\ Len(files[MainPath].body) >= Len(prelude)
  /\ SubSeq(files[MainPath].body, 1, Len(prelude)) = prelude

\* The array that the identifier which is the first argument of a call, or
\* the target of an index assignment, is bound to.
TargetOf(name) == get(heap, Top.env, name).value.ref

\* The statement about to run calls the built-in fn on an identifier.
AtBuiltinOnName(type, fn) ==
  /\ AtStatement(type)
  /\ ValueOf(Stmt).type = "CallExpression"
  /\ ValueOf(Stmt).callee = fn
  /\ get(heap, Top.env, fn) = [ok |-> TRUE, value |-> BuiltinFunction(fn)]
  /\ ValueOf(Stmt).arguments[1].type = "Identifier"
  /\ get(heap, Top.env, ValueOf(Stmt).arguments[1].name).ok

OthersKept(ref) ==
  /\ Len(arrays') = Len(arrays)
  /\ \A r \in 1..Len(arrays) : r # ref => arrays'[r] = arrays[r]
  /\ heap' = heap

\* C15: the second variable, the parameter, the captured parameter and the
\* for variable are bound to the very array of `a`; a push, a pop or an
\* index assignment through any of them changes that array in place (no
\* other array, no binding, no copy), so every binding observes the change.
C15_ArraysShared ==
  /\ [](StartsWith(ArrayPrelude)
          => \A f \in 1..Len(heap) :
               \A n \in DOMAIN heap[f].vars \cap {"b", "p", "q", "row"} :
                 /\ "a" \in DOMAIN heap[GlobalEnv].vars
                 /\ heap[f].vars[n].value = heap[GlobalEnv].vars["a"].value)
  /\ [][StartsWith(ArrayPrelude) =>
          /\ (AtBuiltinOnName("ExpressionStatement", "push") /\ res'.kind = "none")
               => LET ref == TargetOf(Stmt.expression.arguments[1].name) IN
                  /\ arrays'[ref] = Append(arrays[ref],
                                           NumV(Stmt.expression.arguments[2].value))
                  /\ OthersKept(ref)
          /\ (AtBuiltinOnName("LetDeclaration", "pop") /\ res'.kind = "none")
               => LET ref == TargetOf(Stmt.value.arguments[1].name) IN
                  /\ arrays'[ref] = SubSeq(arrays[ref], 1, Len(arrays[ref]) - 1)
                  /\ heap'[Top.env].vars[Stmt.name].value = arrays[ref][Len(arrays[ref])]
                  /\ Len(arrays') = Len(arrays)
                  /\ \A r \in 1..Len(arrays) : r # ref => arrays'[r] = arrays[r]
          /\ (AtStatement("IndexAssignment") /\ res'.kind = "none")
               => LET ref == TargetOf(Stmt.name) IN
                  /\ arrays'[ref] = [arrays[ref] EXCEPT ![Stmt.index.value + 1] =
                                       NumV(Stmt.value.value)]
                  /\ OthersKept(ref)
          /\ (AtBuiltinOnName("ExpressionStatement", "println") /\ res'.kind = "none")
               => output' = Append(output,
                      stringify(arrays, heap[GlobalEnv].vars["a"].value))]_vars

\* C15 witness: after b[1] = 8 stored through the second variable, the
\* variable a prints [1, 8].
C15_Witness ==
  /\ StartsWith(ArrayPrelude)
  /\ runResult.done
  /\ output = << <<"[", "1", ", ", "8", "]">> >>
  /\ heap[GlobalEnv].vars["b"].value = heap[GlobalEnv].vars["a"].value

\* The number truncated toward zero.
trunc(value) ==
  IF Twice(value) >= 0 THEN Twice(value) \div 2 ELSE 0 - ((0 - Twice(value)) \div 2)

\* The index of the statement about to run, as a number.
IndexNow(expr) == evaluateExpression(expr, Top.env, St).value

\* C16: a[i] and a[i] = v use position trunc(i): they succeed and address
\* element trunc(i) iff 0 <= trunc(i) < n, and otherwise fail leaving the
\* array unchanged.
C16_IndexTruncatedTowardZero ==
  [][StartsWith(IndexPrelude) /\ Len(files[MainPath].body) = 3 =>
       /\ AtStatement("IndexAssignment")
            => LET t == trunc(IndexNow(Stmt.index))
                   ref == TargetOf(Stmt.name)
               IN
               IF 0 <= t /\ t < Len(arrays[ref])
               THEN /\ res'.kind = "none"
                    /\ arrays'[ref] = [arrays[ref] EXCEPT ![t + 1] = NumV(9)]
               ELSE /\ res'.kind = "error"
                    /\ arrays' = arrays
       /\ (AtStatement("LetDeclaration") /\ Stmt.value.type = "IndexExpression")
            => LET t == trunc(IndexNow(Stmt.value.index))
                   ref == TargetOf(Stmt.value.object.name)
               IN
               IF 0 <= t /\ t < Len(arrays[ref])
               THEN /\ res'.kind = "none"
                    /\ heap'[Top.env].vars[Stmt.name].value = arrays[ref][t + 1]
               ELSE /\ res'.kind = "error"
                    /\ arrays' = arrays]_vars

\* C16, as the code computes it: the position is the floor of the index, so
\* an index strictly between -1 and 0 is position -1, out of bounds.
C16_IndexFloored ==
  [][StartsWith(IndexPrelude) /\ Len(files[MainPath].body) = 3 =>
       /\ AtStatement("IndexAssignment")
            => LET t == floor(IndexNow(Stmt.index))
                   ref == TargetOf(Stmt.name)
               IN
               IF 0 <= t /\ t < Len(arrays[ref])
               THEN /\ res'.kind = "none"
                    /\ arrays'[ref] = [arrays[ref] EXCEPT ![t + 1] = NumV(9)]
               ELSE /\ res'.kind = "error"
                    /\ arrays' = arrays
       /\ (AtStatement("LetDeclaration") /\ Stmt.value.type = "IndexExpression")
            => LET t == floor(IndexNow(Stmt.value.index))
                   ref == TargetOf(Stmt.value.object.name)
               IN
               IF 0 <= t /\ t < Len(arrays[ref])
               THEN /\ res'.kind = "none"
                    /\ heap'[Top.env].vars[Stmt.name].value = arrays[ref][t + 1]
               ELSE /\ res'.kind = "error"
                    /\ arrays' = arrays]_vars

\* The values of the arguments of the call about to start.
ArgNow(i) == evaluateExpression(ValueOf(Stmt).arguments[i], Top.env, St).value

\* The call of a user function on top of the stack returns to its statement.
CallEnds ==
  /\ stack # <<>>
  /\ Top.k = "call"
  /\ res.kind \in {"normal", "return"}

\* C17: a call runs the body in a new frame whose parent is the function's
\* captured environment and whose names are exactly the parameters, the
\* i-th bound to the i-th argument or to nil when there is none; arguments
\* past the parameters are evaluated (their output appears) and ignored; no
\* frame that existed before the call changes, at its start or while it
\* runs; the calling let binds the returned value, or nil without a return.
C17_CallBindsParameters ==
  /\ [][StartsWith(CallPrelude) =>
          /\ CallStarts =>
               LET funcEnv == Len(heap')
                   params == Callee'.declaration.params
                   k == Len(ValueOf(Stmt).arguments)
               IN
               /\ funcEnv = Len(heap) + 1
               /\ heap'[funcEnv].parent = Callee'.closure
               /\ DOMAIN heap'[funcEnv].vars = {params[i] : i \in DOMAIN params}
               /\ \A i \in DOMAIN params :
                    heap'[funcEnv].vars[params[i]] =
                      [value |-> IF i <= k THEN ArgNow(i) ELSE NilV, constant |-> FALSE]
               /\ \A e \in 1..Len(heap) : heap'[e] = heap[e]
               /\ output' = output \o
                    (IF k = 3 THEN << <<"7">> >> ELSE <<>>)
          /\ \A j \in 1..Len(stack) :
               (stack[j].k = "call" /\ j < Len(stack) /\ Len(stack') > j)
                 => heap'[stack[j].env] = heap[stack[j].env]
          /\ CallEnds =>
               /\ heap'[Top.env].vars =
                    [n \in DOMAIN heap[Top.env].vars \cup {Top.stmt.name} |->
                       IF n = Top.stmt.name
                       THEN [value |-> IF res.kind = "return" THEN res.value ELSE NilV,
                             constant |-> FALSE]
                       ELSE heap[Top.env].vars[n]]
               /\ res'.kind = "none"]_vars
  /\ [](StartsWith(CallPrelude) /\ runResult.done /\ Len(files[MainPath].body) = 5
          => LET call == [callee |-> files[MainPath].body[4].value.callee,
                          arguments |-> files[MainPath].body[4].value.arguments]
             IN
             /\ call = CallArguments[1] => output = << <<"nil">>, <<"nil">>, <<"nil">> >>
             /\ call = CallArguments[2] => output = << <<"1">>, <<"nil">>, <<"nil">> >>
             /\ call = CallArguments[3] => output = << <<"1">>, <<"2">>, <<"nil">> >>
             /\ call = CallArguments[4]
                  => output = << <<"7">>, <<"1">>, <<"2">>, <<"nil">> >>
             /\ call = CallArguments[5] => output = << <<"nil">> >>
             /\ call = CallArguments[6] => output = << <<"5">> >>
             /\ call = CallArguments[7] => output = << <<"1">> >>
             /\ call = CallArguments[8] => output = << <<"6">> >>
             /\ call = CallArguments[9] => output = << <<"24">> >>)

\* C17 witness: fac(3) finished with 6 in v, after three frames of fac, each
\* with its own n, were created.
C17_Witness ==
  /\ StartsWith(CallPrelude)
  /\ runResult.done
  /\ output = << <<"6">> >>
  /\ \E e1, e2, e3 \in 1..Len(heap) :
       /\ "n" \in DOMAIN heap[e1].vars /\ heap[e1].vars["n"].value = NumV(3)
       /\ "n" \in DOMAIN heap[e2].vars /\ heap[e2].vars["n"].value = NumV(2)
       /\ "n" \in DOMAIN heap[e3].vars /\ heap[e3].vars["n"].value = NumV(1)
       /\ heap[e1].vars["r"].value = NumV(2)

\* What env.set(name, value) must do to the frames: nothing but an error
\* when name is unbound along the chain of env, and a new value in the
\* nearest frame that binds it (and nothing else) when that binding is not
\* constant.
SetsNearest(env, name, value) ==
  LET f == Lookup(heap, env, name) IN
  /\ f = 0 =>
       /\ res'.kind = "error"
       /\ res'.error.name = "RuntimeError"
       /\ Contains(res'.error.message, "Undefined variable")
       /\ heap' = heap
       /\ Lookup(heap', env, name) = 0
  /\ (f # 0 /\ ~heap[f].vars[name].constant) =>
       /\ res'.kind = "none"
       /\ heap' = [heap EXCEPT ![f].vars[name].value = value]

\* C18: an assignment changes the own names of no frame; when its value is
\* there (evaluated directly, or returned by a user call) it fails with
\* "Undefined variable" and leaves every frame as it was if the name is bound
\* nowhere along the chain, and otherwise stores the value in the nearest
\* frame that binds the name.
C18_AssignmentNeverDefines ==
  [][/\ AtStatement("Assignment")
          => /\ \A e \in 1..Len(heap) : DOMAIN heap'[e].vars = DOMAIN heap[e].vars
             /\ (~Exceeded(step(St))
                 /\ evaluateExpression(Stmt.value, Top.env, step(St)).kind = "value")
                   => SetsNearest(Top.env, Stmt.name,
                                  evaluateExpression(Stmt.value, Top.env, step(St)).value)
     /\ (CallEnds /\ Top.stmt.type = "Assignment")
          => /\ Len(heap') = Len(heap)
             /\ \A e \in 1..Len(heap) : DOMAIN heap'[e].vars = DOMAIN heap[e].vars
             /\ SetsNearest(Top.env, Top.stmt.name,
                            IF res.kind = "return" THEN res.value ELSE NilV)]_vars

\* C18 witness: an assignment inside an if body failed on a name that no
\* frame of its chain binds, and the name is still bound nowhere.
C18_Witness ==
  /\ stack # <<>>
  /\ Top.k = "block"
  /\ Top.pc <= Len(Top.stmts)
  /\ Stmt.type = "Assignment"
  /\ Top.env # GlobalEnv
  /\ res.kind = "error"
  /\ Contains(res.error.message, "Undefined variable")
  /\ \A e \in 1..Len(heap) : Stmt.name \notin DOMAIN heap[e].vars

BodyRoles == {"if", "while", "for", "try", "catch"}

\* A body of an if, a loop round, a try or a catch starts.
BodyStarts ==
  /\ stack # <<>>
  /\ stack' # <<>>
  /\ res'.kind = "none"
  /\ stack'[Len(stack')].k = "block"
  /\ stack'[Len(stack')].role \in BodyRoles
  /\ stack'[Len(stack')].pc = 1
  /\ (Len(stack') # Len(stack) \/ stack'[Len(stack')] # Top)

\* The names a body starts with: the variable of a for, the variable of a catch.
BoundAtStart(frame, below) ==
  CASE frame.role = "for" -> {below.stmt.variable}
    [] frame.role = "catch" -> {Top.stmt.catchVariable}
    [] OTHER -> {}

AtDeclaration ==
  \/ AtStatement("LetDeclaration")
  \/ AtStatement("ConstDeclaration")
  \/ AtStatement("FunctionDeclaration")

\* C19: each body of an if branch, of a round of a while or a for, of a try
\* and of a catch starts in a new frame, child of the environment of its
\* statement, that binds nothing but the variable of the for or of the catch
\* (so nothing declared in an earlier round); a let, const or func executed
\* in such a body changes no other frame; the programs print what shadowing
\* and fresh rounds give.
C19_BodiesRunInFreshEnv ==
  /\ [][/\ BodyStarts =>
             LET frame == stack'[Len(stack')] IN
             /\ frame.env = Len(heap) + 1
             /\ Len(heap') = Len(heap) + 1
             /\ heap'[frame.env].parent = Top.env
             /\ DOMAIN heap'[frame.env].vars = BoundAtStart(frame, stack'[Len(stack') - 1])
             /\ \A e \in 1..Len(heap) : heap'[e] = heap[e]
        /\ ((AtDeclaration /\ Top.role \in BodyRoles)
            \/ (CallEnds /\ Top.stmt.type \in {"LetDeclaration", "ConstDeclaration"}
                /\ stack[Len(stack) - 1].role \in BodyRoles))
             => \A e \in 1..Len(heap) : e # Top.env => heap'[e] = heap[e]]_vars
  /\ [](\A i \in DOMAIN BlockPrograms :
          (files[MainPath] = Parsed(BlockPrograms[i].body) /\ runResult.done)
            => output = BlockPrograms[i].prints)

\* C19 witness: the nested-scopes program ended having printed inner, then
\* outer, with x still "outer" in the global frame and "inner" in the frame
\* of the if body.
C19_Witness ==
  /\ files[MainPath] = Parsed(BlockPrograms[1].body)
  /\ runResult.done
  /\ output = << <<"inner">>, <<"outer">> >>
  /\ heap[GlobalEnv].vars["x"].value = StrV(<<"outer">>)
  /\ \E e \in 1..Len(heap) :
       /\ heap[e].parent = GlobalEnv
       /\ DOMAIN heap[e].vars = {"x"}
       /\ heap[e].vars["x"].value = StrV(<<"inner">>)

\* The level of a binary operator in the table, lowest first.
Level(operator) ==
  CASE operator = "or" -> 1
    [] operator = "and" -> 2
    [] operator \in {"==", "!="} -> 3
    [] operator \in {"<", ">", "<=", ">="} -> 4
    [] operator \in {"+", "-"} -> 5
    [] operator \in {"*", "/", "%"} -> 6
    [] operator = "^" -> 7

\* The level at which an expression was built: unary and primary
\* expressions bind tighter than every binary operator.
RootLevel(expr) == IF expr.type = "BinaryExpression" THEN Level(expr.operator) ELSE 8

\* Every operand of a binary operator was built at a higher level, except
\* the left operand of a left-associative operator and the right operand of
\* ^, which may be built at the same level; the operand of a unary operator
\* is no binary expression.
RECURSIVE Shaped(_)
Shaped(expr) ==
  CASE expr.type = "BinaryExpression" ->
         /\ IF expr.operator = "^"
            THEN /\ RootLevel(expr.left) > Level(expr.operator)
                 /\ RootLevel(expr.right) >= Level(expr.operator)
            ELSE /\ RootLevel(expr.left) >= Level(expr.operator)
                 /\ RootLevel(expr.right) > Level(expr.operator)
         /\ Shaped(expr.left)
         /\ Shaped(expr.right)
    [] expr.type = "UnaryExpression" -> RootLevel(expr.operand) = 8 /\ Shaped(expr.operand)
    [] OTHER -> TRUE

\* The operands and operators of an expression, from left to right.
RECURSIVE Leaves(_)
Leaves(expr) ==
  CASE expr.type = "BinaryExpression" ->
         Leaves(expr.left) \o <<expr.operator>> \o Leaves(expr.right)
    [] expr.type = "UnaryExpression" -> <<expr.operator>> \o Leaves(expr.operand)
    [] expr.type = "Identifier" -> <<expr.name>>
    [] expr.type = "NumberLiteral" -> <<ToString(expr.value)>>
    [] expr.type = "BooleanLiteral" -> <<IF expr.value THEN "true" ELSE "false">>

\* A line of operands and operators only, which was parsed.
ChainParsed ==
  /\ parser.done
  /\ \A i \in DOMAIN parser.tokens :
       parser.tokens[i].type \notin {"LPAREN", "RPAREN", "NIL", "LBRACKET", "RBRACKET", "COMMA"}
  /\ "type" \in DOMAIN parser.result

\* a op1 b op2 c nests op2 when op1 is of a lower level, or both are ^.
Nested(op1, op2) ==
  LET a == Identifier("a")
      b == Identifier("b")
      c == Identifier("c")
  IN
  IF Level(op1) < Level(op2) \/ (op1 = "^" /\ op2 = "^")
  THEN BinaryExpression(op1, a, BinaryExpression(op2, b, c))
  ELSE BinaryExpression(op2, BinaryExpression(op1, a, b), c)

\* C20: a op1 b op2 c parses as a op1 (b op2 c) when op1 is of a lower
\* level than op2 and as (a op1 b) op2 c when it is of a higher level or of
\* the same one, except that a ^ b ^ c is a ^ (b ^ c); in general the parsed
\* tree holds the tokens of the line in their order, every binary operator
\* has operands built at higher levels (the same level on the left, or on
\* the right for ^), and a unary operator applies to a unary or primary
\* expression only.
C20_PrecedenceAndAssociativity ==
  /\ ChainParsed => (Leaves(parser.result) =
                       [i \in 1..(Len(parser.tokens) - 1) |-> parser.tokens[i].value]
                     /\ Shaped(parser.result))
  /\ \A i, j \in DOMAIN BinaryOperators :
       (parser.done
        /\ parser.tokens = Chain(<<BinaryOperators[i], BinaryOperators[j]>>, 0, EOF, 1))
         => parser.result = Nested(BinaryOperators[i].value, BinaryOperators[j].value)
  /\ (parser.done /\ parser.tokens = TokenLines[1])
       => parser.result = BinaryExpression("+", NumberLiteral(1),
                             BinaryExpression("*", NumberLiteral(2), NumberLiteral(3)))
  /\ (parser.done /\ parser.tokens = TokenLines[3])
       => parser.result = BinaryExpression("or",
                             BinaryExpression("and", BooleanLiteral(TRUE), BooleanLiteral(FALSE)),
                             BooleanLiteral(TRUE))

\* C20 witness: 2 ^ 3 ^ 2 was parsed as 2 ^ (3 ^ 2).
C20_Witness ==
  /\ parser.done
  /\ parser.tokens = TokenLines[2]
  /\ parser.result = BinaryExpression("^", NumberLiteral(2),
                        BinaryExpression("^", NumberLiteral(3), NumberLiteral(2)))

\* The expression of f[1]...[k] or f(...)[1]...[k]: k index nodes around
\* the identifier or the call.
RECURSIVE NestedIndex(_, _)
NestedIndex(arity, k) ==
  IF k = 0
  THEN CASE arity = 0 -> Identifier("f")
         [] arity = 1 -> CallExpression("f", <<>>)
         [] arity = 2 -> CallExpression("f", <<NumberLiteral(7)>>)
         [] arity = 3 -> CallExpression("f", <<NumberLiteral(7), NumberLiteral(8)>>)
  ELSE IndexExpression(NestedIndex(arity, k - 1), NumberLiteral(k))

\* C21: name[e1]...[ek] and name(args)[e1]...[ek] parse to k nested index
\* nodes around the identifier or the call, and the expression ends where
\* the line ends.
C21_IndexChainsParsed ==
  \A arity \in 0..3 : \A k \in 1..MaxBrackets :
    (parser.done /\ parser.tokens = IndexLine(arity, k))
      => /\ parser.result = NestedIndex(arity, k)
         /\ parser.pos = Len(parser.tokens)

\* C21, as the code parses: the chain after a call is parsed whole, after
\* an identifier one bracket is parsed and the next one is left over.
C21_OneBracketAfterIdentifier ==
  \A arity \in 0..3 : \A k \in 1..MaxBrackets :
    (parser.done /\ parser.tokens = IndexLine(arity, k))
      => IF arity = 0
         THEN /\ parser.result = NestedIndex(0, 1)
              /\ parser.pos = 5
         ELSE /\ parser.result = NestedIndex(arity, k)
              /\ parser.pos = Len(parser.tokens)

\* The names of the user functions whose call is executing in the current
\* evaluation, in call order.
ActiveCalls ==
  LET above == SubSeq(stack, CurI(stack) + 1, Len(stack))
      calls == SelectSeq(above, LAMBDA frame : frame.k = "call")
  IN [i \in DOMAIN calls |-> calls[i].func.declaration.name]

FrameNames(callStack) == [i \in DOMAIN callStack |-> callStack[i].name]

\* C22: while statements execute, the call-frame stack names exactly the
\* executing calls, in call order, and the frames attached to an error are
\* the calls that were executing when it was raised.
C22_CallStackIsActiveCalls ==
  /\ []((stack # <<>> /\ res.kind = "none") => FrameNames(Cur.callStack) = ActiveCalls)
  /\ [][(stack # <<>> /\ res.kind = "none" /\ res'.kind = "error"
         /\ res'.error.name = "RuntimeError")
          => FrameNames(res'.error.callStack) = ActiveCalls]_vars

\* C22, as far as it holds: the stack names the executing calls until an
\* error has left a call.
C22_CallStackUntilError ==
  /\ []((stack # <<>> /\ res.kind = "none" /\ output = <<>>
         /\ \E i \in {2, 3} : files[MainPath] = Parsed(StackPrograms[i]))
          => FrameNames(Cur.callStack) = ActiveCalls)

\* The expressions entered when expr is evaluated to a value; and / or are
\* counted by Plain as not known beforehand.
RECURSIVE Size(_)
RECURSIVE SizeAll(_, _)
SizeAll(exprs, i) == IF i > Len(exprs) THEN 0 ELSE Size(exprs[i]) + SizeAll(exprs, i + 1)

Size(expr) ==
  CASE expr.type = "None" -> 0
    [] expr.type = "ArrayLiteral" -> 1 + SizeAll(expr.elements, 1)
    [] expr.type = "UnaryExpression" -> 1 + Size(expr.operand)
    [] expr.type = "BinaryExpression" -> 1 + Size(expr.left) + Size(expr.right)
    [] expr.type = "CallExpression" -> 1 + SizeAll(expr.arguments, 1)
    [] expr.type = "IndexExpression" -> 1 + Size(expr.object) + Size(expr.index)
    [] OTHER -> 1

RECURSIVE Plain(_)
Plain(expr) ==
  CASE expr.type = "ArrayLiteral" -> \A i \in DOMAIN expr.elements : Plain(expr.elements[i])
    [] expr.type = "UnaryExpression" -> Plain(expr.operand)
    [] expr.type = "BinaryExpression" ->
         expr.operator \notin {"and", "or"} /\ Plain(expr.left) /\ Plain(expr.right)
    [] expr.type = "CallExpression" -> \A i \in DOMAIN expr.arguments : Plain(expr.arguments[i])
    [] expr.type = "IndexExpression" -> Plain(expr.object) /\ Plain(expr.index)
    [] OTHER -> TRUE

Truthy(expr, env) == isTruthy(evaluateExpression(expr, env, St).value)

\* The guards of an if statement that are evaluated: up to the first truthy.
RECURSIVE GuardEntries(_, _, _)
GuardEntries(stmt, i, env) ==
  IF i = 0
  THEN Size(stmt.condition)
         + (IF Truthy(stmt.condition, env) THEN 0 ELSE GuardEntries(stmt, 1, env))
  ELSE IF i > Len(stmt.alternateConditions) THEN 0
  ELSE Size(stmt.alternateConditions[i].condition)
         + (IF Truthy(stmt.alternateConditions[i].condition, env) THEN 0
            ELSE GuardEntries(stmt, i + 1, env))

\* The statement entries, expression entries and loop rounds of one step
\* that raises no error.
Entries ==
  IF stack = <<>> THEN 0
  ELSE IF Top.k = "block" /\ res.kind = "none" /\ Top.pc <= Len(Top.stmts)
  THEN 1 + CASE Stmt.type \in {"LetDeclaration", "ConstDeclaration", "Assignment",
                               "ExpressionStatement", "ReturnStatement"} ->
                     Size(ValueOf(Stmt))
             [] Stmt.type = "IndexAssignment" -> Size(Stmt.index) + Size(Stmt.value)
             [] Stmt.type = "IfStatement" -> GuardEntries(Stmt, 0, Top.env)
             [] Stmt.type = "ForStatement" -> Size(Stmt.iterable)
             [] OTHER -> 0
  ELSE IF Top.k = "while" /\ res.kind \in {"none", "normal", "continue"}
  THEN Size(Top.stmt.condition) + (IF Truthy(Top.stmt.condition, Top.env) THEN 1 ELSE 0)
  ELSE IF Top.k = "for" /\ res.kind \in {"none", "normal", "continue"}
  THEN (IF Top.idx < Len(arrays[Top.ref]) THEN 1 ELSE 0)
  ELSE 0

\* The expressions that the step on top evaluates hold no and / or.
PlainStep ==
  \/ stack = <<>>
  \/ Top.k \notin {"block", "while"}
  \/ Top.k = "while" /\ Plain(Top.stmt.condition)
  \/ /\ Top.k = "block"
     /\ Top.pc <= Len(Top.stmts) =>
          CASE Stmt.type \in {"LetDeclaration", "ConstDeclaration", "Assignment",
                              "ExpressionStatement", "ReturnStatement"} -> Plain(ValueOf(Stmt))
            [] Stmt.type = "IndexAssignment" -> Plain(Stmt.index) /\ Plain(Stmt.value)
            [] Stmt.type = "IfStatement" ->
                 /\ Plain(Stmt.condition)
                 /\ \A i \in DOMAIN Stmt.alternateConditions :
                      Plain(Stmt.alternateConditions[i].condition)
            [] Stmt.type = "ForStatement" -> Plain(Stmt.iterable)
            [] OTHER -> TRUE

\* C23: the counter of an evaluation starts at 0 and grows in each step by
\* the statement entries, expression entries and loop rounds of that step;
\* interpret returns it; the evaluation of a module has a counter of its
\* own, starting at 0, and the importer's counter is after the import what
\* it was when the module's evaluation started.
C23_StepsCountEntries ==
  /\ [][/\ (stack = <<>> /\ stack' # <<>>) => stack'[1].steps = 0
        /\ (stack # <<>> /\ Len(stack') >= CurI(stack) /\ PlainStep
            /\ (res'.kind = "error" => res.kind = "error"))
             => stack'[CurI(stack)].steps = Cur.steps + Entries
        /\ (stack # <<>> /\ stack' # <<>> /\ CurI(stack') > CurI(stack))
             => stack'[CurI(stack')].steps = 0
        /\ (stack # <<>> /\ Top.k = "interpret" /\ Top.module /\ res.kind # "none")
             => stack'[CurI(stack')].steps = stack[CurI(stack')].steps
        /\ (stack # <<>> /\ Top.k = "interpret" /\ ~Top.module /\ res.kind # "none")
             => runResult'.steps = Top.steps]_vars
  /\ []((runResult.done /\ files[MainPath] = Parsed(BlockPrograms[1].body))
          => runResult.steps = 12)
  /\ []((runResult.done /\ files[MainPath] = Parsed(<<ImportStatement(<<"a">>)>>))
          => runResult.steps = 1)

\* C23 witness: a main file that only imports a module whose evaluation
\* counted steps of its own ended with a count of 1.
C23_Witness ==
  /\ runResult.done
  /\ runResult.steps = 1
  /\ files[MainPath] = Parsed(<<ImportStatement(<<"a">>)>>)
  /\ runResult.error.null
  /\ Len(files[<<"a", ".lux">>].body) >= 2

\* The array, the position and the evaluated value of the index assignment
\* on top.
WriteNow ==
  LET index == evaluateExpression(Stmt.index, Top.env, step(St))
      value == evaluateExpression(Stmt.value, Top.env, index.st)
  IN [ref |-> get(heap, Top.env, Stmt.name).value.ref, idx |-> floor(index.value),
      st |-> value.st]

Written == AtStatement("IndexAssignment") /\ res'.kind = "none"

\* C24 as stated: an index assignment writes below the length the array has
\* at the write, leaves the length as it is, and no array ever has a
\* position without a value.
C24_WriteLandsInsideArray ==
  /\ [][Written =>
          /\ WriteNow.idx < Len(WriteNow.st.arrays[WriteNow.ref])
          /\ Len(arrays'[WriteNow.ref]) = Len(WriteNow.st.arrays[WriteNow.ref])]_vars
  /\ [](\A r \in DOMAIN arrays : \A j \in DOMAIN arrays[r] : arrays[r][j].t # "undefined")

\* What the code keeps: the position is below the length the array had at
\* the bounds check, before the value was evaluated.
C24_WriteBelowCheckedLength ==
  [][Written =>
       LET index == evaluateExpression(Stmt.index, Top.env, step(St)) IN
       /\ WriteNow.idx < Len(index.st.arrays[WriteNow.ref])
       /\ arrays'[WriteNow.ref][WriteNow.idx + 1] =
            evaluateExpression(Stmt.value, Top.env, index.st).value]_vars

\* A for loop over the array that the first statement of the main file
\* declared, and the number of elements that array held at the loop's start.
Grows == \E i \in DOMAIN GrowPrograms : files[MainPath] = Parsed(GrowPrograms[i])

Held == Len(files[MainPath].body[1].value.elements)

ForEnds ==
  /\ stack # <<>>
  /\ Top.k = "for"
  /\ res.kind \in {"none", "normal", "continue"}
  /\ Len(stack') < Len(stack)
  /\ res'.kind = "none"

\* C25 as stated: a for loop whose body pushes onto or pops from the
\* iterated array ends after as many rounds as the array held elements when
\* the loop started, and the evaluation does not end with the budget error.
C25_ForRunsOncePerElementHeld ==
  /\ [][(Grows /\ ForEnds) => Top.idx = Held]_vars
  /\ []((Grows /\ runResult.done) => runResult.error.null)

\* What the code keeps: a round starts while the position is below the
\* array's present length and binds the element now at that position; the
\* loop ends when the position has reached the present length.
C25_ForFollowsLiveArray ==
  [][/\ ForEnds => Top.idx >= Len(arrays[Top.ref])
     /\ (stack # <<>> /\ Top.k = "for" /\ Len(stack') > Len(stack))
          => /\ Top.idx < Len(arrays[Top.ref])
             /\ heap'[stack'[Len(stack')].env].vars[Top.stmt.variable].value =
                  arrays[Top.ref][Top.idx + 1]]_vars

\* The evaluation of a module ends with a runtime error or a failed nested
\* import; the source of a module to evaluate does not lex or parse.
ModuleEndsWithError ==
  stack # <<>> /\ Top.k = "interpret" /\ Top.module /\ res.kind = "error"

ModuleUnparsable ==
  /\ AtStatement("ImportStatement")
  /\ ~Exceeded(step(St))
  /\ resolve(Stmt.path) \notin loading
  /\ resolve(Stmt.path) \notin DOMAIN cache
  /\ existsSync(resolve(Stmt.path))
  /\ ~files[resolve(Stmt.path)].ok

AtImport(stk) ==
  /\ stk # <<>>
  /\ stk[Len(stk)].k = "block"
  /\ stk[Len(stk)].pc <= Len(stk[Len(stk)].stmts)
  /\ stk[Len(stk)].stmts[stk[Len(stk)].pc].type = "ImportStatement"

Fails == \E i \in DOMAIN FailPrograms : files[MainPath] = FailPrograms[i].main

\* C26: when the evaluation of a module ends with an error, or its source
\* does not parse, the import statement of the importer raises an error,
\* the module's path gets no cache entry and the global environment is left
\* as it is; a module being evaluated adds no name to the global
\* environment by its own statements; after the run the names declared by
\* the failed module are unbound in the global environment.
C26_FailedModuleLeavesNoTrace ==
  /\ [][/\ ModuleEndsWithError =>
             /\ AtImport(stack') /\ res'.kind = "error"
             /\ Top.file \notin DOMAIN cache'
             /\ heap'[GlobalEnv] = heap[GlobalEnv]
        /\ ModuleUnparsable =>
             /\ AtImport(stack') /\ res'.kind = "error"
             /\ resolve(Stmt.path) \notin DOMAIN cache'
             /\ heap'[GlobalEnv] = heap[GlobalEnv]
        /\ (stack # <<>> /\ Cur.module /\ Top.k # "interpret"
            /\ ~AtStatement("ImportStatement"))
             => DOMAIN heap'[GlobalEnv].vars = DOMAIN heap[GlobalEnv].vars]_vars
  /\ []((Fails /\ runResult.done)
          => /\ <<"a", ".lux">> \notin DOMAIN cache
             /\ {"c", "h", "y"} \cap DOMAIN heap[GlobalEnv].vars = {})

\* C26 witness: a module that declared a constant and a function ended
\* with a runtime error, the importer caught the failed import and went on.
C26_Witness ==
  /\ runResult.done
  /\ files[MainPath] = FailPrograms[3].main
  /\ files[<<"a", ".lux">>] = FailPrograms[3].a
  /\ evalCount[<<"a", ".lux">>] = 1
  /\ output = << <<"after">> >>
  /\ DOMAIN cache = {<<"b", ".lux">>}
  /\ "g" \in DOMAIN heap[GlobalEnv].vars

\* The body of a call has ended with a break or continue that no loop of
\* the body took.
SignalLeavesBody ==
  stack # <<>> /\ Top.k = "call" /\ res.kind \in {"break", "continue"}

\* C27: a break or continue that ends the body of a call ends the call
\* only: the statement holding the call completes with nil as the call's
\* value, the caller goes on with its next statement, and the frames of the
\* caller's loops stay as they are; the caller's loop runs all its rounds
\* and the statements after the call in each round.
C27_SignalStopsAtCall ==
  /\ [][SignalLeavesBody =>
          /\ res'.kind = "none"
          /\ Len(stack') = Len(stack) - 1
          /\ \A j \in (CurI(stack) + 1)..Len(stack') : stack'[j] = Advance(Pop(stack))[j]
          /\ stack'[CurI(stack)].callStack = SubSeq(Cur.callStack, 1, Len(Cur.callStack) - 1)
          /\ Top.stmt.type = "LetDeclaration"
               => heap'[Top.env].vars[Top.stmt.name].value = NilV]_vars
  /\ [](\A i \in DOMAIN SignalPrograms :
          (runResult.done /\ files[MainPath] = Parsed(SignalPrograms[i].body))
            => runResult.error.null /\ output = SignalPrograms[i].prints)

\* C27 witness: a for loop over two elements has called, in each round, a
\* function whose body executed break, has printed nil twice and has ended.
C27_Witness ==
  /\ runResult.done
  /\ files[MainPath] = Parsed(SignalPrograms[1].body)
  /\ output = << <<"nil">>, <<"nil">>, <<"done">> >>

\* The counter of the evaluation in progress is above the limit.
Spent == stack # <<>> /\ Cur.steps > STEP_LIMIT

\* A statement is entered; a round of a loop is to start.
StatementEntry ==
  stack # <<>> /\ Top.k = "block" /\ res.kind = "none" /\ Top.pc <= Len(Top.stmts)

RoundEntry ==
  /\ stack # <<>>
  /\ res.kind \in {"none", "normal", "continue"}
  /\ \/ Top.k = "while"
     \/ Top.k = "for" /\ Top.idx < Len(arrays[Top.ref])

Exports == \E i \in DOMAIN ExportPrograms : files[MainPath] = Parsed(ExportPrograms[i].body)

ModuleEnv == cache[<<"a", ".lux">>]

Imported == <<"a", ".lux">> \in DOMAIN cache

\* The body of inc, called from the main file, is about to start.
IncStarts ==
  /\ stack # <<>>
  /\ Top.k = "block"
  /\ Top.role = "function"
  /\ Top.pc = 1
  /\ res.kind = "none"
  /\ ~Cur.module

\* C29: the function that the main file got from the module has the
\* module's environment as closure; each call of it from the main file runs
\* in a child of that environment, reads the module's count and assigns it
\* there, one more with every call; the global environment has the function
\* but never gets count from the module; a read of count by name in the
\* main file fails, or gives the main file's own count.
C29_ExportKeepsModuleEnv ==
  /\ []((Exports /\ Imported) =>
          /\ heap[GlobalEnv].vars["inc"].value = heap[ModuleEnv].vars["inc"].value
          /\ heap[GlobalEnv].vars["inc"].value.closure = ModuleEnv
          /\ ModuleEnv # GlobalEnv
          /\ "count" \in DOMAIN heap[ModuleEnv].vars)
  /\ []((Exports /\ IncStarts) => heap[Top.env].parent = ModuleEnv)
  /\ []((Exports /\ stack # <<>>) =>
          IF files[MainPath] = Parsed(ExportPrograms[1].body)
          THEN "count" \notin DOMAIN heap[GlobalEnv].vars
          ELSE "count" \in DOMAIN heap[GlobalEnv].vars
                 => heap[GlobalEnv].vars["count"].value = NumV(10))
  /\ [][(Exports /\ stack # <<>> /\ Top.k = "call" /\ res.kind = "return") =>
          /\ res.value = heap[ModuleEnv].vars["count"].value
          /\ res.value.v = Len(SelectSeq(SubSeq(Top'.stmts, 1, Top'.pc - 1),
                                         LAMBDA stmt : stmt.type \in {"LetDeclaration", "Assignment"}
                                                       /\ stmt.value.type = "CallExpression"))]_vars
  /\ [](\A i \in DOMAIN ExportPrograms :
          (runResult.done /\ files[MainPath] = Parsed(ExportPrograms[i].body))
            => /\ output = ExportPrograms[i].prints
               /\ heap[ModuleEnv].vars["count"].value = NumV(2)
               /\ runResult.error.null <=> i = 2
               /\ i = 1 => Contains(runResult.error.text, "Undefined variable"))

\* C29 witness: the main file imported the module, called inc twice,
\* printed 2, and its read of count by name failed; the module's count is 2.
C29_Witness ==
  /\ runResult.done
  /\ files[MainPath] = Parsed(ExportPrograms[1].body)
  /\ output = << <<"2">> >>
  /\ ~runResult.error.null
  /\ heap[ModuleEnv].vars["count"].value = NumV(2)

\* ── The REPL (repl.ts 14-128) ───────────────────────────────────────────
\* A line is the sequence of its words (line.trim().split(/\s+/)); the
\* buffer is the sequence of the lines joined by newlines.
MaxLines == 4

BLOCK_OPENERS == {"func", "if", "while", "for", "try"}

\* for (const word of words): depth++ on an opener, max(0, depth - 1) on end.
RECURSIVE trackDepth(_, _, _)
trackDepth(words, i, depth) ==
  IF i > Len(words) THEN depth
  ELSE LET opened == IF words[i] \in BLOCK_OPENERS THEN depth + 1 ELSE depth
           closed == IF words[i] = "end" THEN (IF opened - 1 > 0 THEN opened - 1 ELSE 0)
                     ELSE opened
       IN trackDepth(words, i + 1, closed)

\* source.trim() === "": only blank lines.
Blank(source) == \A i \in DOMAIN source : source[i] = <<>>

ReplLines ==
  { <<"if", "x", "then">>, <<"else", "if", "y", "then">>, <<"else">>, <<"end">>,
    <<"println(x)">>, <<"while", "x", "do">>, <<"for", "v", "in", "a", "do">>,
    <<"func", "f()">>, <<"try">>, <<"catch", "e">>, <<>>, <<".help">>, <<".clear">>,
    <<".exit">> }

ReplInit ==
  /\ repl = [buffer |-> <<>>, depth |-> 0, closed |-> FALSE, fed |-> 0, line |-> <<>>,
             evaluated |-> <<>>, evals |-> 0]
  /\ parser = [tokens |-> <<>>, done |-> FALSE, result |-> NoExpr, pos |-> 1]
  /\ files = <<>>
  /\ heap = <<>>
  /\ arrays = <<>>
  /\ output = <<>>
  /\ stack = <<>>
  /\ res = NoRes
  /\ cache = <<>>
  /\ loading = {}
  /\ runResult = [done |-> FALSE, steps |-> 0, error |-> Null]
  /\ evalCount = <<>>

\* handleLine(line): commands at depth 0, then buffer, depth, and the
\* evaluation of the buffer once depth is 0.
handleLine ==
  /\ ~repl.closed
  /\ repl.fed < MaxLines
  /\ \E line \in ReplLines :
       LET fed == [repl EXCEPT !.fed = @ + 1, !.line = line]
           buffer == IF repl.buffer = <<>> THEN <<line>> ELSE Append(repl.buffer, line)
           depth == trackDepth(line, 1, repl.depth)
       IN
       repl' = IF repl.depth = 0 /\ line \in {<<".exit">>, <<".quit">>}
               THEN [fed EXCEPT !.closed = TRUE]
               ELSE IF repl.depth = 0 /\ line \in {<<".help">>, <<".clear">>} THEN fed
               ELSE IF depth > 0 THEN [fed EXCEPT !.buffer = buffer, !.depth = depth]
               ELSE IF Blank(buffer) THEN [fed EXCEPT !.buffer = <<>>, !.depth = 0]
               ELSE [fed EXCEPT !.buffer = <<>>, !.depth = 0, !.evaluated = buffer,
                                !.evals = @ + 1]
  /\ UNCHANGED <<files, heap, arrays, output, stack, res, cache, loading, runResult, evalCount,
                 parser>>

ReplNext == handleLine

ReplSpec == ReplInit /\ [][ReplNext]_vars

\* The words of the lines, in order, each line ended by a newline.
RECURSIVE Words(_, _)
Words(lines, i) ==
  IF i > Len(lines) THEN <<>> ELSE lines[i] \o <<"\n">> \o Words(lines, i + 1)

\* The blocks open after the first n words, innermost last, as the parser
\* nests them: an `if` right after `else` continues the if statement and
\* opens no block of its own (repl.ts 391-399), a plain else or a catch
\* takes the place of its if or try, an end closes the innermost block.
\* <<"bad">> when the words are no statements.
RECURSIVE Blocks(_, _)
Blocks(words, n) ==
  IF n = 0 THEN <<>>
  ELSE LET open == Blocks(words, n - 1)
           word == words[n]
           inner == IF open = <<>> THEN "none" ELSE open[Len(open)]
           replaced(by) == [open EXCEPT ![Len(open)] = by]
       IN
       CASE inner = "bad" -> open
         [] word = "if" /\ n > 1 /\ words[n - 1] = "else" -> open
         [] word \in {"func", "if", "while", "for", "try"} -> Append(open, word)
         [] word = "else" ->
              IF inner # "if" THEN <<"bad">>
              ELSE IF n < Len(words) /\ words[n + 1] = "if" THEN open
              ELSE replaced("else")
         [] word = "catch" -> IF inner = "try" THEN replaced("catch") ELSE <<"bad">>
         [] word = "end" ->
              IF inner \in {"none", "try"} THEN <<"bad">> ELSE SubSeq(open, 1, Len(open) - 1)
         [] OTHER -> open

\* The lines are one block statement: opened by the first word, closed by
\* the end that is the last word, open in between.
OneStatement(lines) ==
  LET words == Words(lines, 1) IN
  /\ Len(words) >= 2
  /\ words[Len(words) - 1] = "end"
  /\ Blocks(words, Len(words)) = <<>>
  /\ \A n \in 1..(Len(words) - 2) :
       Blocks(words, n) # <<>> /\ Blocks(words, n) # <<"bad">>

Entered == IF repl.buffer = <<>> THEN <<repl'.line>> ELSE Append(repl.buffer, repl'.line)

\* C30 as stated: when the lines entered since the last evaluation form one
\* block statement whose openers are all closed, an if with else-if
\* branches by a single end, the REPL evaluates them on the closing line
\* and is back at depth 0 with an empty buffer; depth is never negative.
C30_BlockEvaluatedOnClosingLine ==
  /\ [][(repl'.fed = repl.fed + 1 /\ OneStatement(Entered)) =>
          /\ repl'.depth = 0
          /\ repl'.buffer = <<>>
          /\ repl'.evaluated = Entered
          /\ repl'.evals = repl.evals + 1]_vars
  /\ [](repl.depth >= 0)

ElseIf(lines) == \E i \in DOMAIN lines : \E n \in 2..Len(lines[i]) :
                   lines[i][n] = "if" /\ lines[i][n - 1] = "else"

\* What the code keeps: a block statement without else if is evaluated on
\* its closing line; one with else-if branches is not: the REPL stays at a
\* depth above 0 and goes on buffering.
C30_EvaluatedUnlessElseIf ==
  /\ [][(repl'.fed = repl.fed + 1 /\ OneStatement(Entered)) =>
          IF ElseIf(Entered)
          THEN repl'.depth > 0 /\ repl'.buffer = Entered /\ repl'.evals = repl.evals
          ELSE /\ repl'.depth = 0
               /\ repl'.buffer = <<>>
               /\ repl'.evaluated = Entered
               /\ repl'.evals = repl.evals + 1]_vars
  /\ [](repl.depth >= 0)

====
